---- MODULE Spec2Model ----
(***************************************************************************)
(* A model of the divine-rest-gateway core: the relay subscription driver  *)
(* (relay_pool.rs), the publish-and-verify queue consumer                  *)
(* (queue_consumer.rs), the filter fingerprint (filter.rs), the KV cache   *)
(* facade (cache.rs) and the two HTTP handlers that feed them (router.rs). *)
(*                                                                         *)
(* Time is the wall clock of js_sys::Date::now(), in milliseconds.  The    *)
(* relay, the KV store and the queue runtime are the environment: every    *)
(* frame, failure and delay they can produce is a nondeterministic choice. *)
(***************************************************************************)
EXTENDS Integers, Sequences, FiniteSets, TLC

\* ------------------------------------------------------------------ bounds

\* A relay that floods the driver past its cap varies the documents of the
\* first MaxVaried events of the session; its later EVENT frames repeat the
\* document before them.
MaxVaried == 1

\* EVENT frames one relay session may carry in the gateway and worker
\* specifications (the driver specification lets the relay exceed the cap).
MaxFrames == 2

\* The event documents a relay can send.
EventDocs == {"e1", "e2"}

\* Delays, in ms, after which a frame can arrive while the driver waits; a
\* frame can also arrive exactly when the timer would fire (after Sleep).
Delays == {0}

\* The same for the relay of the timing specification, which can also send a
\* frame just before an idle wait of 300 ms ends.
TimedDelays == {0, 299}

\* Option<T>: None is the empty tuple, Some(x) the tuple of x alone.
None == <<>>
Some(x) == <<x>>

Min(a, b) == IF a <= b THEN a ELSE b

\* ------------------------------------------------------------------ state

VARIABLES
    now,        \* js_sys::Date::now(), ms
    d_pc,       \* query_relay_raw: "idle", "await", "closing", "returned", "failed"
    d_caller,   \* which Durable Object route runs the driver: "query" or "verify"
    d_filter,   \* filter_json, the text handed to query_relay_raw
    d_sub,      \* sub_id
    d_start,    \* start
    d_last,     \* last_event_time
    d_events,   \* events
    d_exit,     \* the branch that left the loop
    ws_out,     \* text frames the driver sent on its WebSocket, in order
    ws_in,      \* Some of what event_stream.next() gave the driver, in order, in the
                \* specification that keeps the record; None in the others
    r_left,     \* EVENT frames the relay may still send on this socket
    r_varied,   \* how many of the session's first events the relay varies
    r_delays,   \* the delays, in ms, after which the relay of this session sends
    calls_left, \* driver invocations still to come
    f_a, f_b,   \* two values of the filter query parameter; in the gateway
                \* specification f_a is the parameter of the last /query taken
    f_keys,     \* what from_base64 and cache_key make of them
    c_filter,   \* a Filter value
    c_encoded,  \* its to_base64()
    c_decoded,  \* Filter::from_base64 of that
    c_ttl,      \* its ttl_seconds()
    a_header,   \* validate_nip98: auth_header
    a_method,   \* method
    a_result,   \* what validate_nip98 returned
    x_req,      \* concurrent /query requests: per request, where handle_query stands
    x_puts,     \* the requests whose put_query ran, in the order of the puts
    x_conns,    \* WebSocket::connect calls that succeeded
    y_wrk,      \* concurrent handle_queue invocations: per invocation, where it stands
    y_rows,     \* the status rows they passed to set_publish_status, in the order of the puts
    kv_query,   \* KV, keys "query:<hex>": cache key -> CachedQuery
    kv_status,  \* KV, keys "publish:<event_id>": event id -> PublishStatus
    publish_queue, \* PUBLISH_QUEUE: the events sent to the queue, in order
    q_pc,       \* handle_query: "idle", or "relay" while the Durable Object call runs
    q_text,     \* the decoded filter bytes of the request in progress
    q_filter,   \* filter
    q_key,      \* cache_key
    q_origin,   \* cache key -> the loop exit of the driver invocation that filled it
    q_done,     \* the cache key of the last /query answered, and how it was answered
    resp,       \* the last HTTP response
    reqs_left,  \* HTTP requests still to come
    batch_len,  \* handle_queue: the number of messages of the batch
    w_pc,       \* handle_queue: where the invocation stands
    w_i,        \* the index of the message being processed
    w_event,    \* event, the body of that message
    w_attempts, \* attempts
    w_ok,       \* relay_ok
    w_err,      \* the call whose error ended the invocation
    msg_calls,  \* per message of the batch, the ack and retry calls made on it
    p_start,    \* publish_to_relay: start
    p_out,      \* text frames publish_to_relay sent on its WebSocket
    p_last,     \* the frame or stream end that ended the wait for OK
    p_skipped   \* the frames publish_to_relay received and passed over in that wait

drvVars == <<d_pc, d_caller, d_filter, d_sub, d_start, d_last, d_events, d_exit, ws_out, ws_in, r_left, r_varied, r_delays, calls_left>>

fltVars == <<f_a, f_b, f_keys, c_filter, c_encoded, c_decoded, c_ttl>>

authVars == <<a_header, a_method, a_result>>

conVars == <<x_req, x_puts, x_conns, y_wrk, y_rows>>

kvVars == <<kv_query, kv_status, publish_queue>>

gwVars == <<q_pc, q_text, q_filter, q_key, q_origin, q_done, resp, reqs_left>>

wrkVars == <<batch_len, w_pc, w_i, w_event, w_attempts, w_ok, w_err, msg_calls, p_start, p_out, p_last, p_skipped>>

nonDrv == <<fltVars, authVars, conVars, kvVars, gwVars, wrkVars>>

vars == <<now, drvVars, fltVars, authVars, conVars, kvVars, gwVars, wrkVars>>

\* ------------------------------------------------------------------ filter model

\* The decoded filter bytes are modelled as the JSON object they spell: the
\* sequence of its members <<name, value>>, in the order of the text.
\* The members a client can put in a filter text.
Members ==
    { <<"kinds", <<0>>>>, <<"kinds", <<7, 1>>>>, <<"limit", 1>>, <<"#platform", <<"vine">>>> }

\* Members of one filter text, at most.
MaxFields == 2

RECURSIVE SeqsUpTo(_, _)
SeqsUpTo(S, n) ==
    IF n = 0 THEN {<<>>}
    ELSE LET shorter == SeqsUpTo(S, n - 1) IN
         shorter \cup {Append(q, x) : q \in {r \in shorter : Len(r) = n - 1}, x \in S}

FilterTexts == SeqsUpTo(Members, MaxFields)

\* The fields of struct Filter, in declaration order, by their serde names.
FilterFields == <<"ids", "authors", "kinds", "since", "until", "limit", "#e", "#p">>

KnownNames == {FilterFields[i] : i \in 1..Len(FilterFields)}

\* The values of the filter query parameter: a base64url blob of some bytes, or
\* text that is no base64url.
\* Bytes are a JSON object text, or bytes that are no UTF-8 or no JSON filter.
Json(text) == [k |-> "json", text |-> text]
NotUtf8 == [k |-> "not_utf8"]
NotJson == [k |-> "not_json"]
Blob(bytes) == [k |-> "blob", bytes |-> bytes]
NotBase64 == [k |-> "not_base64"]
FilterParams ==
    {NotBase64} \cup {Blob(b) : b \in {Json(t) : t \in FilterTexts} \cup {NotUtf8, NotJson}}

Err(e) == [k |-> "err", e |-> e]
Ok(v) == [k |-> "ok", v |-> v]

\* URL_SAFE_NO_PAD.decode
Base64Decode(param) == IF param.k = "not_base64" THEN Err("InvalidBase64") ELSE Ok(param.bytes)

\* serde_json::from_str::<Filter>: a known field is taken from the member of
\* that name, a member of any other name is skipped, a known name twice is an
\* error.
DeserializeFilter(text) ==
    IF \E i, j \in 1..Len(text) : i # j /\ text[i][1] = text[j][1] /\ text[i][1] \in KnownNames
    THEN Err("InvalidJson")
    ELSE Ok([n \in KnownNames |->
            IF \E i \in 1..Len(text) : text[i][1] = n
            THEN Some(text[CHOOSE i \in 1..Len(text) : text[i][1] = n][2])
            ELSE None])

\* A variant of from_base64 that takes bytes it cannot read for the empty filter.
from_base64_Lenient(encoded) ==
    LET bytes == Base64Decode(encoded) IN
    IF bytes.k = "err" \/ bytes.v.k \in {"not_utf8", "not_json"}
    THEN Ok([n \in KnownNames |-> None])
    ELSE DeserializeFilter(bytes.v.text)

\* Filter::from_base64
from_base64(encoded) ==
    LET bytes == Base64Decode(encoded) IN
    IF bytes.k = "err" THEN bytes
    ELSE IF bytes.v.k = "not_utf8" THEN Err("InvalidUtf8")
    ELSE IF bytes.v.k = "not_json" THEN Err("InvalidJson")
    ELSE DeserializeFilter(bytes.v.text)

\* serde_json::to_string(&filter): the fields that are Some, in declaration order.
RECURSIVE SerializeFrom(_, _)
SerializeFrom(filter, i) ==
    IF i > Len(FilterFields) THEN <<>>
    ELSE LET n == FilterFields[i] IN
         (IF filter[n] = None THEN <<>> ELSE << <<n, filter[n][1]>> >>) \o SerializeFrom(filter, i + 1)

to_string(filter) == SerializeFrom(filter, 1)

\* hex(first 16 bytes of SHA-256(bytes)): distinct inputs give distinct digests.
Sha256Hex16(bytes) == <<"sha256/128", bytes>>

\* A variant of to_base64 that also skips the fields holding an empty list.
to_base64_SkipEmpty(filter) ==
    Blob(Json(to_string([n \in KnownNames |->
        IF n \in {"ids", "authors", "kinds", "#e", "#p"} /\ filter[n] # None /\ filter[n][1] = <<>>
        THEN None ELSE filter[n]])))

\* Filter::to_base64
to_base64(filter) == Blob(Json(to_string(filter)))

\* Filter::cache_key
cache_key(filter) == <<"query:", Sha256Hex16(to_string(filter))>>

\* A variant of ttl_seconds that goes by the last declared kind.
ttl_seconds_LastKind(filter) ==
    LET last == IF filter["kinds"] = None \/ filter["kinds"][1] = <<>>
                THEN None ELSE Some(filter["kinds"][1][Len(filter["kinds"][1])]) IN
    CASE last = Some(0) -> 900
      [] last = Some(3) -> 600
      [] last = Some(1) -> 300
      [] last = Some(7) -> 120
      [] OTHER -> 300

\* Filter::ttl_seconds
ttl_seconds(filter) ==
    LET first == IF filter["kinds"] = None \/ filter["kinds"][1] = <<>>
                 THEN None ELSE Some(filter["kinds"][1][1]) IN
    CASE first = Some(0) -> 900
      [] first = Some(3) -> 600
      [] first = Some(1) -> 300
      [] first = Some(7) -> 120
      [] OTHER -> 300

\* ------------------------------------------------------------------ relay driver

limit == 500
max_timeout_ms == 5000
idle_timeout_ms == 300
empty_timeout_ms == 1000
max_sleep_ms == 500

\* The filter text of the driver specification: it asks for one event.
DriverFilters == {<< <<"kinds", <<0>>>>, <<"limit", 1>> >>}

\* format!(r#"["REQ","{}",{}]"#, sub_id, filter_json)
ReqFrame(sub, filter_json) == <<"REQ", sub, filter_json>>

\* serde_json::json!(["CLOSE", sub_id])
CloseFrame(sub) == <<"CLOSE", sub>>

\* format!("q{}", js_sys::Date::now() as u64)
SubId(t) == <<"q", t>>

LimitReachedOff(n) == n > limit
LimitReached(n) == n >= limit

\* The first break of the loop head that applies, in the order of the code; "none"
\* when the driver goes on to wait.
\* Variants of remaining: the empty wait not reduced by the time elapsed, and
\* the idle wait not capped by what is left of max_timeout_ms.
RemainingEmptyWhole(t, start, last, events) ==
    IF events = <<>> THEN empty_timeout_ms
    ELSE Min(idle_timeout_ms, max_timeout_ms - (t - start))

RemainingIdleWhole(t, start, last, events) ==
    IF events = <<>> THEN empty_timeout_ms - (t - start)
    ELSE idle_timeout_ms

\* remaining
Remaining(t, start, last, events) ==
    IF events = <<>> THEN empty_timeout_ms - (t - start)
    ELSE Min(idle_timeout_ms, max_timeout_ms - (t - start))

LoopBreak(t, start, last, events) ==
    IF t - start > max_timeout_ms THEN "max"
    ELSE IF events # <<>> /\ t - last > idle_timeout_ms THEN "idle"
    ELSE IF events = <<>> /\ t - start > empty_timeout_ms THEN "empty"
    ELSE IF LimitReached(Len(events)) THEN "limit"
    ELSE IF Remaining(t, start, last, events) <= 0 THEN "remaining"
    ELSE "none"

\* The head of the loop, reached at time t: where the driver goes next and, when
\* it leaves the loop, by which break.
LoopHead(t, start, last, events) ==
    LET b == LoopBreak(t, start, last, events) IN
    [pc |-> IF b = "none" THEN "await" ELSE "closing", exit |-> b]

\* remaining.min(500.0) as u32
Sleep == Min(Remaining(now, d_start, d_last, d_events), max_sleep_ms)

\* What the socket can deliver: text frames by the type of parsed[0], and the
\* ends of the stream.
EventFrames ==
    [t : {"EVENT"}, doc : IF Len(d_events) < r_varied \/ d_events = <<>>
                          THEN EventDocs ELSE {d_events[Len(d_events)]}]
IgnoredFrames == [t : {"EVENT_SHORT", "NOTICE", "OK", "OTHER", "UNPARSABLE"}]
StreamEnds == [t : {"CLOSE", "ERR", "END"}]

\* event_stream.next() gave f: the record, where it is kept, grows by f.
Received(f) == ws_in' = IF ws_in = None THEN None ELSE Some(Append(ws_in[1], f))

\* A new stream: the record, where it is kept, starts empty.
NewStream == ws_in' = IF ws_in = None THEN None ELSE Some(<<>>)

\* Frames that are no EVENT one relay session may carry where the record is
\* kept.
MaxIgnored == 1

MayIgnore ==
    ws_in # None => Cardinality({i \in 1..Len(ws_in[1]) : ws_in[1][i].t # "EVENT"}) < MaxIgnored

\* WebSocket::connect .. ws.send_with_str(&req_msg)?, with the connect
\* completing at time t.
DrvStart(caller, filter_json, budget, varied, delays, t) ==
    /\ d_pc = "idle"
    /\ calls_left > 0
    /\ calls_left' = calls_left - 1
    /\ now' = t
    /\ d_caller' = caller
    /\ d_filter' = filter_json
    /\ d_events' = <<>>
    /\ d_exit' = "none"
    /\ r_varied' = varied
    /\ r_delays' = delays
    /\ d_start' = t
    /\ d_last' = t
    /\ NewStream
    /\ \E outcome \in {"ok", "connect_failed", "send_failed"} :
        CASE outcome = "ok" ->
                /\ d_pc' = LoopHead(t, t, t, <<>>).pc
                /\ d_sub' = Some(SubId(t))
                /\ ws_out' = <<ReqFrame(SubId(t), filter_json)>>
                /\ r_left' = budget
          [] outcome = "connect_failed" ->
                /\ d_pc' = "failed"
                /\ d_sub' = None
                /\ ws_out' = <<>>
                /\ r_left' = 0
          [] outcome = "send_failed" ->
                /\ d_pc' = "failed"
                /\ d_sub' = Some(SubId(t))
                /\ ws_out' = <<>>
                /\ r_left' = 0

\* A variant of DrvEvent that drops an event document it already holds.
DrvEventDedup ==
    /\ d_pc = "await"
    /\ r_left > 0
    /\ \E d \in r_delays \cup {Sleep}, f \in EventFrames :
        LET kept == IF \E i \in 1..Len(d_events) : d_events[i] = f.doc
                    THEN d_events ELSE Append(d_events, f.doc) IN
        /\ d <= Sleep
        /\ now' = now + d
        /\ Received(f)
        /\ d_events' = kept
        /\ d_last' = now + d
        /\ d_pc' = LoopHead(now + d, d_start, now + d, kept).pc
        /\ d_exit' = LoopHead(now + d, d_start, now + d, kept).exit
    /\ r_left' = r_left - 1
    /\ UNCHANGED <<d_caller, d_filter, d_sub, d_start, ws_out, r_varied, r_delays, calls_left, nonDrv>>

\* select: the message future wins, with an EVENT frame of three elements.
DrvEvent ==
    /\ d_pc = "await"
    /\ r_left > 0
    /\ \E d \in r_delays \cup {Sleep}, f \in EventFrames :
        /\ d <= Sleep
        /\ now' = now + d
        /\ Received(f)
        /\ d_events' = Append(d_events, f.doc)
        /\ d_last' = now + d
        /\ d_pc' = LoopHead(now + d, d_start, now + d, Append(d_events, f.doc)).pc
        /\ d_exit' = LoopHead(now + d, d_start, now + d, Append(d_events, f.doc)).exit
    /\ r_left' = r_left - 1
    /\ UNCHANGED <<d_caller, d_filter, d_sub, d_start, ws_out, r_varied, r_delays, calls_left, nonDrv>>

\* How late, in ms, the runtime of the late specification hands a frame to the
\* driver: setTimeout and the socket promise no exact time, and
\* js_sys::Date::now() is read after the select has returned.
LateMs == 100

\* select: the message future wins with an EVENT frame of three elements that
\* came as the timer was due, and the clock is read LateMs after that.
DrvEventLate ==
    /\ d_pc = "await"
    /\ r_left > 0
    /\ \E f \in EventFrames :
        LET t == now + Sleep + LateMs IN
        /\ now' = t
        /\ Received(f)
        /\ d_events' = Append(d_events, f.doc)
        /\ d_last' = t
        /\ d_pc' = LoopHead(t, d_start, t, Append(d_events, f.doc)).pc
        /\ d_exit' = LoopHead(t, d_start, t, Append(d_events, f.doc)).exit
    /\ r_left' = r_left - 1
    /\ UNCHANGED <<d_caller, d_filter, d_sub, d_start, ws_out, r_varied, r_delays, calls_left, nonDrv>>

\* A variant of DrvIgnored in which every frame restarts the idle clock.
DrvIgnoredResetsIdle ==
    /\ d_pc = "await"
    /\ MayIgnore
    /\ \E d \in r_delays \cup {Sleep}, f \in IgnoredFrames :
        /\ d <= Sleep
        /\ now' = now + d
        /\ Received(f)
        /\ d_last' = now + d
        /\ d_pc' = LoopHead(now + d, d_start, now + d, d_events).pc
        /\ d_exit' = LoopHead(now + d, d_start, now + d, d_events).exit
    /\ UNCHANGED <<d_caller, d_filter, d_sub, d_start, d_events, ws_out, r_left, r_varied, r_delays, calls_left, nonDrv>>

\* select: the message future wins, with a frame the match ignores.
DrvIgnored ==
    /\ d_pc = "await"
    /\ MayIgnore
    /\ \E d \in r_delays \cup {Sleep}, f \in IgnoredFrames :
        /\ d <= Sleep
        /\ now' = now + d
        /\ Received(f)
        /\ d_pc' = LoopHead(now + d, d_start, d_last, d_events).pc
        /\ d_exit' = LoopHead(now + d, d_start, d_last, d_events).exit
    /\ UNCHANGED <<d_caller, d_filter, d_sub, d_start, d_last, d_events, ws_out, r_left, r_varied, r_delays, calls_left, nonDrv>>

\* select: the message future wins, with EOSE.
DrvEose ==
    /\ d_pc = "await"
    /\ \E d \in r_delays \cup {Sleep} :
        /\ d <= Sleep
        /\ now' = now + d
    /\ Received([t |-> "EOSE"])
    /\ d_pc' = "closing"
    /\ d_exit' = "eose"
    /\ UNCHANGED <<d_caller, d_filter, d_sub, d_start, d_last, d_events, ws_out, r_left, r_varied, r_delays, calls_left, nonDrv>>

\* A variant of DrvStreamEnd in which the end of the stream is an error of the
\* driver.
DrvStreamEndFails ==
    /\ d_pc = "await"
    /\ \E d \in r_delays \cup {Sleep}, f \in StreamEnds :
        /\ d <= Sleep
        /\ now' = now + d
        /\ Received(f)
    /\ d_exit' = "closed"
    /\ d_pc' = "failed"
    /\ UNCHANGED <<d_caller, d_filter, d_sub, d_start, d_last, d_events, ws_out, r_left, r_varied, r_delays, calls_left, nonDrv>>

\* select: the message future wins, with Close, Err or the end of the stream.
DrvStreamEnd ==
    /\ d_pc = "await"
    /\ \E d \in r_delays \cup {Sleep}, f \in StreamEnds :
        /\ d <= Sleep
        /\ now' = now + d
        /\ Received(f)
    /\ d_exit' = "closed"
    /\ d_pc' = "closing"
    /\ UNCHANGED <<d_caller, d_filter, d_sub, d_start, d_last, d_events, ws_out, r_left, r_varied, r_delays, calls_left, nonDrv>>

\* A variant of DrvTimeout in which the promise of sleep_ms never resolves.
DrvTimeoutNever ==
    /\ d_pc = "await"
    /\ UNCHANGED <<now, drvVars, nonDrv>>

\* select: the sleep_ms future wins.
DrvTimeout ==
    /\ d_pc = "await"
    /\ now' = now + Sleep
    /\ d_pc' = LoopHead(now + Sleep, d_start, d_last, d_events).pc
    /\ d_exit' = LoopHead(now + Sleep, d_start, d_last, d_events).exit
    /\ UNCHANGED <<d_caller, d_filter, d_sub, d_start, d_last, d_events, ws_out, ws_in, r_left, r_varied, r_delays, calls_left, nonDrv>>

\* let _ = ws.send_with_str(CLOSE); Ok(events)
DrvReturn ==
    /\ d_pc = "closing"
    /\ \E sent \in BOOLEAN :
        ws_out' = IF sent THEN Append(ws_out, CloseFrame(d_sub[1])) ELSE ws_out
    /\ d_pc' = "returned"
    /\ UNCHANGED <<now, d_caller, d_filter, d_sub, d_start, d_last, d_events, d_exit, ws_in, r_left, r_varied, r_delays, calls_left, nonDrv>>


\* ------------------------------------------------------------------ KV cache facade

\* now_seconds(): (js_sys::Date::now() / 1000.0) as u64
now_seconds(t) == t \div 1000

\* u64::saturating_sub
saturating_sub(a, b) == IF a >= b THEN a - b ELSE 0

Has(f, k) == k \in DOMAIN f

\* KvStore::put: the value under the key is replaced.
Put(f, k, v) == [x \in DOMAIN f \cup {k} |-> IF x = k THEN v ELSE f[x]]

\* Cache::get_query: the entry and its age, or None
get_query(kv, key, t) ==
    IF Has(kv, key)
    THEN Some(<<kv[key], saturating_sub(now_seconds(t), kv[key].timestamp)>>)
    ELSE None

\* A variant of put_query that stores the list without its first event.
put_query_DropFirst(kv, key, events, eose, ttl, t) ==
    Put(kv, key, [events |-> IF events = <<>> THEN events ELSE Tail(events),
                  eose |-> eose, timestamp |-> now_seconds(t), expiration_ttl |-> ttl])

\* A variant of put_query that adds the events to those of the entry it finds.
put_query_Merge(kv, key, events, eose, ttl, t) ==
    Put(kv, key, [events |-> IF Has(kv, key) THEN kv[key].events \o events ELSE events,
                  eose |-> eose, timestamp |-> now_seconds(t), expiration_ttl |-> ttl])

\* Cache::put_query: the CachedQuery, stored with .expiration_ttl(ttl_seconds)
put_query(kv, key, events, eose, ttl, t) ==
    Put(kv, key, [events |-> events, eose |-> eose, timestamp |-> now_seconds(t),
                  expiration_ttl |-> ttl])

\* Cache::get_publish_status
get_publish_status(kv, event_id) == IF Has(kv, event_id) THEN Some(kv[event_id]) ELSE None

\* A variant of set_publish_status that keeps the row it finds.
set_publish_status_IfAbsent(kv, event_id, status) ==
    IF Has(kv, event_id) THEN kv ELSE Put(kv, event_id, status)

\* A variant of set_publish_status that never lowers the attempts of a row.
set_publish_status_KeepAttempts(kv, event_id, status) ==
    IF Has(kv, event_id) /\ kv[event_id].attempts # None /\ status.attempts # None
       /\ kv[event_id].attempts[1] > status.attempts[1]
    THEN Put(kv, event_id, [status EXCEPT !.attempts = kv[event_id].attempts])
    ELSE Put(kv, event_id, status)

\* Cache::set_publish_status
set_publish_status(kv, event_id, status) == Put(kv, event_id, status)

\* struct PublishStatus
PublishStatus(status, attempts, verified_at, error) ==
    [status |-> status, attempts |-> attempts, verified_at |-> verified_at, error |-> error]

\* A KV call returns Ok or Err.
KvResults == {"ok", "err"}

\* ------------------------------------------------------------------ NIP-98 validator

RequestUrl == "https://gateway/publish"

\* An auth event as far as validate_nip98 reads it; id_ok says whether id is the
\* SHA-256 of the serialized event, sig whether the Schnorr signature verifies.
AuthEvent(kind, created_at, tags, id_ok, sig) ==
    [kind |-> kind, created_at |-> created_at, tags |-> tags, id_ok |-> id_ok, sig |-> sig]

GoodTags == << <<"u", RequestUrl>>, <<"method", "POST">> >>

\* The Authorization headers of the requests: none, another scheme, and Nostr
\* tokens: text that is no base64 or no JSON, a valid envelope, and envelopes
\* that each fail one check.
Header(scheme, token) == [scheme |-> scheme, token |-> token]
Token(event) == [k |-> "event", event |-> event]
AuthHeaders ==
    { None,
      Some(Header("Bearer ", [k |-> "x"])),
      Some(Header("Nostr ", [k |-> "not_base64"])),
      Some(Header("Nostr ", [k |-> "not_json"])),
      Some(Header("Nostr ", Token(AuthEvent(27235, 0, GoodTags, TRUE, "valid")))),
      Some(Header("Nostr ", Token(AuthEvent(1, 0, GoodTags, TRUE, "valid")))),
      Some(Header("Nostr ", Token(AuthEvent(27235, 1000, GoodTags, TRUE, "valid")))),
      Some(Header("Nostr ", Token(AuthEvent(27235, 0, << <<"u", RequestUrl>>, <<"method", "GET">> >>, TRUE, "valid")))),
      Some(Header("Nostr ", Token(AuthEvent(27235, 0, << <<"u", "https://other/publish">>, <<"method", "post">> >>, TRUE, "valid")))),
      Some(Header("Nostr ", Token(AuthEvent(27235, 0, GoodTags, TRUE, "invalid")))) }

\* str::to_uppercase, on the method names of the model.
to_uppercase(m) ==
    CASE m = "post" -> "POST"
      [] m = "get" -> "GET"
      [] OTHER -> m

\* tags.iter().find(|t| t.get(0) == Some(name)).and_then(|t| t.get(1))
TagValue(tags, name) ==
    LET rows == {i \in 1..Len(tags) : Len(tags[i]) >= 1 /\ tags[i][1] = name} IN
    IF rows = {} THEN None
    ELSE LET first == CHOOSE i \in rows : \A j \in rows : i <= j IN
         IF Len(tags[first]) >= 2 THEN Some(tags[first][2]) ELSE None

\* verify_signature
verify_signature(event) == event.id_ok /\ event.sig = "valid"

\* Variants of validate_nip98: the freshness margin in seconds, and whether the
\* "u" tag is checked before the "method" tag.
validate_with(auth_header, method, url, t, margin, url_first) ==
    IF auth_header = None THEN "MissingHeader"
    ELSE IF auth_header[1].scheme # "Nostr " THEN "InvalidFormat"
    ELSE LET token == auth_header[1].token IN
    IF token.k \in {"not_base64", "not_utf8"} THEN "InvalidBase64"
    ELSE IF token.k = "not_json" THEN "InvalidJson"
    ELSE LET event == token.event
             method_bad == \/ TagValue(event.tags, "method") = None
                           \/ to_uppercase(TagValue(event.tags, "method")[1]) # to_uppercase(method)
             url_bad == TagValue(event.tags, "u") = None \/ TagValue(event.tags, "u")[1] # url IN
    IF event.kind # 27235 THEN "InvalidKind"
    ELSE IF \/ event.created_at > now_seconds(t) + margin
            \/ event.created_at < saturating_sub(now_seconds(t), margin) THEN "Expired"
    ELSE IF url_first /\ url_bad THEN "InvalidUrl"
    ELSE IF method_bad THEN "InvalidMethod"
    ELSE IF url_bad THEN "InvalidUrl"
    ELSE IF ~verify_signature(event) THEN "InvalidSignature"
    ELSE "Ok"

\* A variant of validate_nip98 that checks the header and not the envelope.
validate_nip98_SchemeOnly(auth_header, method, url, t) ==
    IF auth_header = None THEN "MissingHeader"
    ELSE IF auth_header[1].scheme # "Nostr " THEN "InvalidFormat"
    ELSE "Ok"

validate_nip98_UrlFirst(auth_header, method, url, t) ==
    validate_with(auth_header, method, url, t, 60, TRUE)

validate_nip98_Margin59(auth_header, method, url, t) ==
    validate_with(auth_header, method, url, t, 59, FALSE)

\* validate_nip98: "Ok", or the AuthError of the first failing check
validate_nip98(auth_header, method, url, t) ==
    IF auth_header = None THEN "MissingHeader"
    ELSE IF auth_header[1].scheme # "Nostr " THEN "InvalidFormat"
    ELSE LET token == auth_header[1].token IN
    IF token.k \in {"not_base64", "not_utf8"} THEN "InvalidBase64"
    ELSE IF token.k = "not_json" THEN "InvalidJson"
    ELSE LET event == token.event IN
    IF event.kind # 27235 THEN "InvalidKind"
    ELSE IF \/ event.created_at > now_seconds(t) + 60
            \/ event.created_at < saturating_sub(now_seconds(t), 60) THEN "Expired"
    ELSE IF TagValue(event.tags, "method") = None THEN "InvalidMethod"
    ELSE IF to_uppercase(TagValue(event.tags, "method")[1]) # to_uppercase(method) THEN "InvalidMethod"
    ELSE IF TagValue(event.tags, "u") = None THEN "InvalidUrl"
    ELSE IF TagValue(event.tags, "u")[1] # url THEN "InvalidUrl"
    ELSE IF ~verify_signature(event) THEN "InvalidSignature"
    ELSE "Ok"

\* ------------------------------------------------------------------ HTTP handlers

\* The filter texts the clients of the gateway specification send: one filter,
\* the same with its keys in the other order, and the same with a tag family
\* outside the known set.
GatewayTexts ==
    { << <<"kinds", <<7, 1>>>>, <<"limit", 1>> >>,
      << <<"limit", 1>>, <<"kinds", <<7, 1>>>> >>,
      << <<"kinds", <<7, 1>>>>, <<"#platform", <<"vine">>>> >>,
      << <<"kinds", <<7, 1>>>> >> }

GatewayParams ==
    {None, Some(NotBase64), Some(Blob(NotUtf8)), Some(Blob(NotJson))} \cup {Some(Blob(Json(b))) : b \in GatewayTexts}

\* GET /query requests the gateway specification follows.
MaxRequests == 2

\* POST /publish requests the publish specification follows.
PublishRequests == 3

\* Between two requests the wall clock runs on to the next multiple of GridMs:
\* the handlers read the clock only inside a request.
GridMs == 10000

NextGrid(t) == ((t \div GridMs) + 1) * GridMs

\* The events of the publish requests: two with an id, and one without.
PublishEvents == {[id |-> "a"], [id |-> "b"], [content |-> "no id"]}

\* A request body: a PublishRequest, or bytes that are none.
PublishBodies == {Ok([event |-> e]) : e \in PublishEvents} \cup {Err("not json")}

\* event.get("id").and_then(|v| v.as_str()).unwrap_or("unknown")
EventId(event) == IF "id" \in DOMAIN event THEN event.id ELSE "unknown"

ErrorResponse(code, error, detail) == [code |-> code, error |-> error, detail |-> detail]

\* A variant of QueryResponse that always carries an age.
QueryResponseAged(events, eose, complete, cached, cache_age_seconds) ==
    [code |-> 200, events |-> events, eose |-> eose, complete |-> complete,
     cached |-> cached,
     cache_age_seconds |-> IF cache_age_seconds = None THEN Some(0) ELSE cache_age_seconds]

\* QueryResponse, with the status code
QueryResponse(events, eose, complete, cached, cache_age_seconds) ==
    [code |-> 200, events |-> events, eose |-> eose, complete |-> complete,
     cached |-> cached, cache_age_seconds |-> cache_age_seconds]

\* The Err a handler returns when a KV or Durable Object call fails: the
\* runtime answers 500.
InternalError == [code |-> 500]

NoResponse == [code |-> 0]

\* How a /query was answered: "bad_request", "kv_get_failed", "hit", "miss",
\* "kv_put_failed", "connect_failed" or "send_failed", with the cache key it
\* had, if any.
Done(key, how) == [key |-> key, how |-> how]
NotDone == Done(None, "none")

DrvIdle ==
    /\ d_pc' = "idle" /\ d_caller' = "none" /\ d_filter' = None /\ d_sub' = None
    /\ d_start' = 0 /\ d_last' = 0 /\ d_events' = <<>> /\ d_exit' = "none"
    /\ ws_out' = <<>> /\ r_left' = 0 /\ r_varied' = 0 /\ r_delays' = {}
    /\ NewStream

\* handle_query up to the cache lookup: 400, a cache hit, or the start of the
\* Durable Object call of a miss.
HandleQuery ==
    /\ q_pc = "idle"
    /\ d_pc = "idle"
    /\ reqs_left > 0
    /\ reqs_left' = reqs_left - 1
    /\ \E param \in GatewayParams, got \in KvResults :
        /\ f_a' = param
        /\ LET parsed == IF param = None THEN Err("missing") ELSE from_base64(param[1])
               filter == parsed.v
               hit == get_query(kv_query, cache_key(filter), now) IN
           IF param = None
           THEN /\ resp' = ErrorResponse(400, "invalid_filter", "missing filter parameter")
                /\ q_done' = Done(None, "bad_request")
                /\ now' = NextGrid(now)
                /\ UNCHANGED <<drvVars, q_pc, q_text, q_filter, q_key>>
           ELSE IF parsed.k = "err"
           THEN /\ resp' = ErrorResponse(400, "invalid_filter", parsed.e)
                /\ q_done' = Done(None, "bad_request")
                /\ now' = NextGrid(now)
                /\ UNCHANGED <<drvVars, q_pc, q_text, q_filter, q_key>>
           ELSE IF got = "err"
           THEN /\ resp' = InternalError
                /\ q_done' = Done(cache_key(filter), "kv_get_failed")
                /\ now' = NextGrid(now)
                /\ UNCHANGED <<drvVars, q_pc, q_text, q_filter, q_key>>
           ELSE IF hit # None
           THEN /\ resp' = QueryResponse(hit[1][1].events, hit[1][1].eose, hit[1][1].eose,
                                         TRUE, Some(hit[1][2]))
                /\ q_done' = Done(cache_key(filter), "hit")
                /\ now' = NextGrid(now)
                /\ UNCHANGED <<drvVars, q_pc, q_text, q_filter, q_key>>
           ELSE /\ DrvStart("query", to_string(filter), MaxFrames, MaxVaried, Delays, now)
                /\ q_pc' = "relay"
                /\ q_text' = Some(param[1].bytes.text)
                /\ q_filter' = Some(filter)
                /\ q_key' = cache_key(filter)
                /\ UNCHANGED <<resp, q_done>>
    /\ UNCHANGED <<f_b, f_keys, c_filter, c_encoded, c_decoded, c_ttl, authVars, conVars, kvVars, q_origin, wrkVars>>

\* handle_query after the Durable Object answered: the write-back and the
\* response of a miss.  now_seconds() of the write-back is read after the
\* answer came back, at the grid time the step ends on.
QueryRelayDone ==
    /\ q_pc = "relay"
    /\ d_pc = "returned"
    /\ \E put \in KvResults :
        IF put = "ok"
        THEN /\ kv_query' = put_query(kv_query, q_key, d_events, TRUE, ttl_seconds(q_filter[1]), NextGrid(now))
             /\ q_origin' = Put(q_origin, q_key, d_exit)
             /\ resp' = QueryResponse(d_events, TRUE, TRUE, FALSE, None)
             /\ q_done' = Done(q_key, "miss")
        ELSE /\ resp' = InternalError
             /\ q_done' = Done(q_key, "kv_put_failed")
             /\ UNCHANGED <<kv_query, q_origin>>
    /\ q_pc' = "idle" /\ q_text' = None /\ q_filter' = None /\ q_key' = None
    /\ DrvIdle
    /\ now' = NextGrid(now)
    /\ UNCHANGED <<fltVars, authVars, conVars, kv_status, publish_queue, reqs_left, calls_left, wrkVars>>

\* A variant of QueryRelayFailed that answers and stores an empty list.
QueryRelayFailedCached ==
    /\ q_pc = "relay"
    /\ d_pc = "failed"
    /\ resp' = QueryResponse(<<>>, TRUE, TRUE, FALSE, None)
    /\ q_done' = Done(q_key, IF d_sub = None THEN "connect_failed" ELSE "send_failed")
    /\ kv_query' = put_query(kv_query, q_key, <<>>, TRUE, ttl_seconds(q_filter[1]), NextGrid(now))
    /\ q_pc' = "idle" /\ q_text' = None /\ q_filter' = None /\ q_key' = None
    /\ DrvIdle
    /\ now' = NextGrid(now)
    /\ UNCHANGED <<fltVars, authVars, conVars, kv_status, publish_queue, q_origin, reqs_left, calls_left, wrkVars>>

\* handle_query when the Durable Object call failed (connect or REQ send):
\* stub.fetch_with_request(..).await? returns the error.
QueryRelayFailed ==
    /\ q_pc = "relay"
    /\ d_pc = "failed"
    /\ resp' = InternalError
    /\ q_done' = Done(q_key, IF d_sub = None THEN "connect_failed" ELSE "send_failed")
    /\ q_pc' = "idle" /\ q_text' = None /\ q_filter' = None /\ q_key' = None
    /\ DrvIdle
    /\ now' = NextGrid(now)
    /\ UNCHANGED <<fltVars, authVars, conVars, kvVars, q_origin, reqs_left, calls_left, wrkVars>>

\* The status row handle_publish writes.
QueuedRow == PublishStatus(<<"queued">>, Some(0), None, None)

\* handle_publish
HandlePublish ==
    /\ reqs_left > 0
    /\ reqs_left' = reqs_left - 1
    /\ \E auth_header \in AuthHeaders, body \in PublishBodies, set \in KvResults :
        LET auth == validate_nip98(auth_header, "POST", RequestUrl, now) IN
        /\ a_header' = auth_header
        /\ a_method' = "POST"
        /\ a_result' = auth
        /\ IF auth # "Ok"
           THEN /\ resp' = ErrorResponse(401, "auth_failed", auth)
                /\ UNCHANGED kv_status
           ELSE IF body.k = "err" \/ set = "err"
           THEN /\ resp' = InternalError
                /\ UNCHANGED kv_status
           ELSE /\ kv_status' = set_publish_status(kv_status, EventId(body.v.event), QueuedRow)
                /\ resp' = [code |-> 202, status |-> "queued", event_id |-> EventId(body.v.event),
                            event |-> body.v.event]
    /\ now' = NextGrid(now)
    /\ UNCHANGED <<drvVars, fltVars, conVars, kv_query, publish_queue, q_pc, q_text, q_filter, q_key, q_origin, q_done, wrkVars>>

\* ------------------------------------------------------------------ publish worker

pub_timeout_ms == 3000

\* Messages of one batch, at most.
MaxBatch == 2

\* The bodies of the queue messages: an event with an id, and one without.
WorkerEvents == {[id |-> "a"], [content |-> "no id"]}

\* serde_json::json!(["EVENT", event])
EventFrame(event) == <<"EVENT", event>>

\* What the publish socket can deliver: an OK frame whose third element is
\* true, false or no boolean, a frame of another kind, and the ends of the stream.
OkFrames == [t : {"OK"}, accepted : {Some(TRUE), Some(FALSE), None}]
OtherFrames == [t : {"NOTICE", "EVENT", "UNPARSABLE"}]

AcceptedUnlessFalse(frame) == frame.accepted # Some(FALSE)
\* parsed.get(2).and_then(|v| v.as_bool()).unwrap_or(false)
Accepted(frame) == frame.accepted = Some(TRUE)

VerifyFilterNoLimit(event_id) == << <<"ids", <<event_id>>>> >>
\* format!(r#"{{"ids":["{}"],"limit":1}}"#, event_id)
VerifyFilter(event_id) == << <<"ids", <<event_id>>>>, <<"limit", 1>> >>

FoundAlways(events) == TRUE
\* verify_event: !events.is_empty()
Found(events) == events # <<>>

\* A variant of the attempt row whose status names the attempt before.
AttemptRowBefore(n) == PublishStatus(<<"attempt_", n - 1>>, Some(n), None, None)

\* A variant of the rejected row that carries no error.
RejectedRowBare(n) == PublishStatus(<<"retry_", n>>, Some(n), None, None)

\* The status rows handle_queue writes.
AttemptRow(n) == PublishStatus(<<"attempt_", n>>, Some(n), None, None)
RejectedRow(n) == PublishStatus(<<"retry_", n>>, Some(n), None, Some("relay rejected"))
NotFoundRow(n) == PublishStatus(<<"retry_", n>>, Some(n), None, Some("event not found on relay"))
PublishedRow(n, t) == PublishStatus(<<"published">>, Some(n), Some(<<"iso", t>>), None)

\* A variant of the attempt count that does not read the row.
NextAttemptFirst(current) == 1

\* current_status.attempts.unwrap_or(0) + 1, with the default row for no status
NextAttempt(current) ==
    IF current = None THEN 1
    ELSE IF current[1].attempts = None THEN 1
    ELSE current[1].attempts[1] + 1

Call(i, what) == [msg_calls EXCEPT ![i] = Append(@, what)]

\* return Err(..): the invocation ends, the messages left are not touched.
Abort(call) == w_pc' = "aborted" /\ w_err' = call

\* The loop goes to the next message, or handle_queue returns Ok(()).
NextMessage ==
    /\ w_pc' = IF w_i < batch_len THEN "read" ELSE "done"
    /\ w_i' = IF w_i < batch_len THEN w_i + 1 ELSE w_i

\* A variant of WRead that acks a message whose event is already published.
WReadSkipsPublished ==
    /\ w_pc = "read"
    /\ \E event \in WorkerEvents, got \in KvResults :
        LET current == get_publish_status(kv_status, EventId(event)) IN
        /\ w_event' = Some(event)
        /\ IF got = "err"
           THEN Abort("get_publish_status") /\ UNCHANGED <<w_attempts, w_i, msg_calls>>
           ELSE IF current # None /\ current[1].status = <<"published">>
           THEN /\ msg_calls' = Call(w_i, "ack")
                /\ NextMessage
                /\ UNCHANGED <<w_attempts, w_err>>
           ELSE /\ w_attempts' = NextAttempt(current)
                /\ w_pc' = "mark"
                /\ UNCHANGED <<w_err, w_i, msg_calls>>
    /\ UNCHANGED <<now, drvVars, fltVars, authVars, conVars, kvVars, gwVars, batch_len, w_ok, p_start, p_out, p_last, p_skipped>>

\* message.body(), event_id, cache.get_publish_status(&event_id).await?
WRead ==
    /\ w_pc = "read"
    /\ \E event \in WorkerEvents, got \in KvResults :
        /\ w_event' = Some(event)
        /\ IF got = "err"
           THEN Abort("get_publish_status") /\ UNCHANGED w_attempts
           ELSE /\ w_attempts' = NextAttempt(get_publish_status(kv_status, EventId(event)))
                /\ w_pc' = "mark"
                /\ UNCHANGED w_err
    /\ UNCHANGED <<now, drvVars, fltVars, authVars, conVars, kvVars, gwVars, batch_len, w_i, w_ok, msg_calls, p_start, p_out, p_last, p_skipped>>

\* cache.set_publish_status(attempt_N).await?
WMark ==
    /\ w_pc = "mark"
    /\ \E set \in KvResults :
        IF set = "err"
        THEN Abort("set_publish_status") /\ UNCHANGED kv_status
        ELSE /\ kv_status' = set_publish_status(kv_status, EventId(w_event[1]), AttemptRow(w_attempts))
             /\ w_pc' = "publish"
             /\ UNCHANGED w_err
    /\ UNCHANGED <<now, drvVars, fltVars, authVars, conVars, kv_query, publish_queue, gwVars, batch_len, w_i, w_event, w_attempts, w_ok, msg_calls, p_start, p_out, p_last, p_skipped>>

\* The call of http://do/publish, up to the wait for OK: connect and the send
\* of the EVENT frame, either of which can fail.
WPublish ==
    /\ w_pc = "publish"
    /\ \E outcome \in {"ok", "connect_failed", "send_failed"} :
        IF outcome = "ok"
        THEN /\ p_out' = <<EventFrame(w_event[1])>>
             /\ p_start' = now
             /\ w_pc' = "ok_wait"
             /\ UNCHANGED w_err
        ELSE /\ Abort("publish")
             /\ UNCHANGED <<p_out, p_start>>
    /\ p_last' = None
    /\ p_skipped' = 0
    /\ UNCHANGED <<now, drvVars, fltVars, authVars, conVars, kvVars, gwVars, batch_len, w_i, w_event, w_attempts, w_ok, msg_calls>>

\* event_stream.next().await gives an OK frame: publish_to_relay returns its flag.
WPubOk ==
    /\ w_pc = "ok_wait"
    /\ \E f \in OkFrames :
        /\ p_last' = Some(f)
        /\ w_ok' = Accepted(f)
    /\ w_pc' = "answered"
    /\ UNCHANGED <<now, drvVars, fltVars, authVars, conVars, kvVars, gwVars, batch_len, w_i, w_event, w_attempts, w_err, msg_calls, p_start, p_out, p_skipped>>

\* A variant of WPubOther in which a frame that is no OK ends the wait as not
\* accepted.
WPubOtherEnds ==
    /\ w_pc = "ok_wait"
    /\ p_skipped < MaxFrames
    /\ p_skipped' = p_skipped + 1
    /\ \E f \in OtherFrames : p_last' = Some(f)
    /\ w_ok' = FALSE
    /\ w_pc' = "answered"
    /\ UNCHANGED <<now, drvVars, fltVars, authVars, conVars, kvVars, gwVars, batch_len, w_i, w_event, w_attempts, w_err, msg_calls, p_start, p_out>>

\* event_stream.next().await gives a frame that is no OK: back to the head of
\* the loop, which returns false once 3000 ms have passed.  The relay sends at
\* most MaxFrames such frames in one wait.
WPubOther ==
    /\ w_pc = "ok_wait"
    /\ p_skipped < MaxFrames
    /\ p_skipped' = p_skipped + 1
    /\ \E f \in OtherFrames :
        IF now - p_start > pub_timeout_ms
        THEN /\ p_last' = Some([t |-> "TIMEOUT"])
             /\ w_ok' = FALSE
             /\ w_pc' = "answered"
        ELSE UNCHANGED <<p_last, w_ok, w_pc>>
    /\ UNCHANGED <<now, drvVars, fltVars, authVars, conVars, kvVars, gwVars, batch_len, w_i, w_event, w_attempts, w_err, msg_calls, p_start, p_out>>

\* event_stream.next().await gives Close, Err or the end of the stream.
WPubEnd ==
    /\ w_pc = "ok_wait"
    /\ \E f \in StreamEnds : p_last' = Some(f)
    /\ w_ok' = FALSE
    /\ w_pc' = "answered"
    /\ UNCHANGED <<now, drvVars, fltVars, authVars, conVars, kvVars, gwVars, batch_len, w_i, w_event, w_attempts, w_err, msg_calls, p_start, p_out, p_skipped>>

\* The relay sends nothing and keeps the socket open: only the clock moves
\* while event_stream.next() is awaited.
WPubSilence ==
    /\ w_pc = "ok_wait"
    /\ now - p_start <= pub_timeout_ms
    /\ now' = now + pub_timeout_ms + 1
    /\ UNCHANGED <<drvVars, nonDrv>>

\* if !relay_ok: the retry row, message.retry(), continue
WRejected ==
    /\ w_pc = "answered"
    /\ ~w_ok
    /\ \E set \in KvResults :
        IF set = "err"
        THEN Abort("set_publish_status") /\ UNCHANGED <<kv_status, msg_calls, w_i>>
        ELSE /\ kv_status' = set_publish_status(kv_status, EventId(w_event[1]), RejectedRow(w_attempts))
             /\ msg_calls' = Call(w_i, "retry")
             /\ NextMessage
             /\ UNCHANGED w_err
    /\ now' = NextGrid(now)
    /\ UNCHANGED <<drvVars, fltVars, authVars, conVars, kv_query, publish_queue, gwVars, batch_len, w_event, w_attempts, w_ok, p_start, p_out, p_last, p_skipped>>

\* The call of http://do/verify: verify_event runs the relay driver.
WVerify ==
    /\ w_pc = "answered"
    /\ w_ok
    /\ DrvStart("verify", VerifyFilter(EventId(w_event[1])), MaxFrames, MaxFrames, Delays, NextGrid(now))
    /\ w_pc' = "verify"
    /\ UNCHANGED <<fltVars, authVars, conVars, kvVars, gwVars, batch_len, w_i, w_event, w_attempts, w_ok, w_err, msg_calls, p_start, p_out, p_last, p_skipped>>

\* The driver could not connect or send its REQ: the verify call fails.
WVerifyFailed ==
    /\ w_pc = "verify"
    /\ d_pc = "failed"
    /\ Abort("verify")
    /\ DrvIdle
    /\ UNCHANGED <<now, calls_left, fltVars, authVars, conVars, kvVars, gwVars, batch_len, w_i, w_event, w_attempts, w_ok, msg_calls, p_start, p_out, p_last, p_skipped>>

\* if found: the published row, message.ack().  Date::new_0() is read after the
\* verify response came back, at the grid time the step ends on.
WVerified ==
    /\ w_pc = "verify"
    /\ d_pc = "returned"
    /\ Found(d_events)
    /\ \E set \in KvResults :
        IF set = "err"
        THEN Abort("set_publish_status") /\ UNCHANGED <<kv_status, msg_calls, w_i>>
        ELSE /\ kv_status' = set_publish_status(kv_status, EventId(w_event[1]), PublishedRow(w_attempts, NextGrid(now)))
             /\ msg_calls' = Call(w_i, "ack")
             /\ NextMessage
             /\ UNCHANGED w_err
    /\ DrvIdle
    /\ now' = NextGrid(now)
    /\ UNCHANGED <<calls_left, fltVars, authVars, conVars, kv_query, publish_queue, gwVars, batch_len, w_event, w_attempts, w_ok, p_start, p_out, p_last, p_skipped>>

\* else: the retry row, message.retry()
WNotFound ==
    /\ w_pc = "verify"
    /\ d_pc = "returned"
    /\ ~Found(d_events)
    /\ \E set \in KvResults :
        IF set = "err"
        THEN Abort("set_publish_status") /\ UNCHANGED <<kv_status, msg_calls, w_i>>
        ELSE /\ kv_status' = set_publish_status(kv_status, EventId(w_event[1]), NotFoundRow(w_attempts))
             /\ msg_calls' = Call(w_i, "retry")
             /\ NextMessage
             /\ UNCHANGED w_err
    /\ DrvIdle
    /\ now' = NextGrid(now)
    /\ UNCHANGED <<calls_left, fltVars, authVars, conVars, kv_query, publish_queue, gwVars, batch_len, w_event, w_attempts, w_ok, p_start, p_out, p_last, p_skipped>>

\* ------------------------------------------------------------------ the driver alone

InitCodecOff == c_filter = None /\ c_encoded = None /\ c_decoded = None /\ c_ttl = None

InitFilterOff == f_a = None /\ f_b = None /\ f_keys = None /\ InitCodecOff

InitConOff == x_req = <<>> /\ x_puts = <<>> /\ x_conns = 0 /\ y_wrk = <<>> /\ y_rows = <<>>

InitAuthOff == a_header = None /\ a_method = "none" /\ a_result = "none"

InitWorkerOff ==
    /\ batch_len = 0 /\ w_pc = "idle" /\ w_i = 0 /\ w_event = None /\ w_attempts = 0
    /\ w_ok = FALSE /\ w_err = "none" /\ msg_calls = <<>>
    /\ p_start = 0 /\ p_out = <<>> /\ p_last = None /\ p_skipped = 0

InitKv == kv_query = <<>> /\ kv_status = <<>> /\ publish_queue = <<>>

InitGatewayOff ==
    /\ q_pc = "idle" /\ q_text = None /\ q_filter = None /\ q_key = None
    /\ q_origin = <<>> /\ q_done = NotDone /\ resp = NoResponse /\ reqs_left = 0

\* POST /query of the Durable Object, with any filter text and any relay.
DoQuery ==
    /\ \E f \in DriverFilters : DrvStart("query", f, limit + 1, MaxVaried, Delays, now)
    /\ UNCHANGED nonDrv

InitDrv(calls) ==
    /\ d_pc = "idle"
    /\ d_caller = "none"
    /\ d_filter = None
    /\ d_sub = None
    /\ d_start = 0
    /\ d_last = 0
    /\ d_events = <<>>
    /\ d_exit = "none"
    /\ ws_out = <<>>
    /\ ws_in = None
    /\ r_left = 0
    /\ r_varied = 0
    /\ r_delays = {}
    /\ calls_left = calls

InitDriver == now = 0 /\ InitDrv(1) /\ InitConOff /\ InitFilterOff /\ InitAuthOff /\ InitKv /\ InitGatewayOff /\ InitWorkerOff

NextDriver ==
    \/ DoQuery
    \/ DrvEvent \/ DrvIgnored \/ DrvEose \/ DrvStreamEnd \/ DrvTimeout \/ DrvReturn

SpecDriver == InitDriver /\ [][NextDriver]_vars

\* POST /query of the Durable Object against a relay that keeps the socket
\* open and never sends EOSE: it is silent, or sends EVENT frames up to past
\* the cap and ignored frames without end.
DoOpenEndedQuery ==
    /\ \E f \in DriverFilters : DrvStart("query", f, limit + 1, 0, Delays, now)
    /\ UNCHANGED nonDrv

NextOpenEnded ==
    \/ DoOpenEndedQuery
    \/ DrvEvent \/ DrvIgnored \/ DrvTimeout \/ DrvReturn

\* The driver under a runtime that keeps its promises: a timer that is set
\* fires (sleep_ms resolves after its delay unless a frame wins the select
\* first), and the code after the loop runs once the loop is left.
SpecDriverLive ==
    InitDriver /\ [][NextOpenEnded]_vars /\ WF_vars(DrvTimeout) /\ WF_vars(DrvReturn)

\* ------------------------------------------------------------------ the driver's clocks

\* POST /query of the Durable Object against a relay that sends at most
\* MaxFrames EVENT frames, each at once, 299 ms into a wait, or as the timer fires.
DoTimedQuery ==
    /\ \E f \in DriverFilters : DrvStart("query", f, MaxFrames, MaxVaried, TimedDelays, now)
    /\ UNCHANGED nonDrv

NextTiming ==
    \/ DoTimedQuery
    \/ DrvEvent \/ DrvIgnored \/ DrvEose \/ DrvStreamEnd \/ DrvTimeout \/ DrvReturn

SpecTiming == InitDriver /\ [][NextTiming]_vars

\* ------------------------------------------------------------------ the driver's frames

\* The driver with a record of what its socket gave it.
InitFrames ==
    /\ now = 0 /\ InitConOff /\ InitFilterOff /\ InitAuthOff /\ InitKv /\ InitGatewayOff /\ InitWorkerOff
    /\ d_pc = "idle" /\ d_caller = "none" /\ d_filter = None /\ d_sub = None
    /\ d_start = 0 /\ d_last = 0 /\ d_events = <<>> /\ d_exit = "none"
    /\ ws_out = <<>> /\ ws_in = Some(<<>>)
    /\ r_left = 0 /\ r_varied = 0 /\ r_delays = {} /\ calls_left = 1

\* POST /query of the Durable Object against a relay that sends up to
\* MaxFrames + 1 EVENT frames, the first MaxFrames of them with any document.
DoRecordedQuery ==
    /\ \E f \in DriverFilters : DrvStart("query", f, MaxFrames + 1, MaxFrames, Delays, now)
    /\ UNCHANGED nonDrv

NextFrames ==
    \/ DoRecordedQuery
    \/ DrvEvent \/ DrvIgnored \/ DrvEose \/ DrvStreamEnd \/ DrvTimeout \/ DrvReturn

SpecFrames == InitFrames /\ [][NextFrames]_vars

\* ------------------------------------------------------------------ the driver, late

\* POST /query of the Durable Object against a relay that sends up to 500
\* EVENT frames, in a runtime that can hand each of them over late.
DoLateQuery ==
    /\ \E f \in DriverFilters : DrvStart("query", f, limit, MaxVaried, Delays, now)
    /\ UNCHANGED nonDrv

NextLate ==
    \/ DoLateQuery
    \/ DrvEvent \/ DrvEventLate \/ DrvIgnored \/ DrvEose \/ DrvStreamEnd \/ DrvTimeout \/ DrvReturn

SpecLate == InitDriver /\ [][NextLate]_vars

\* ------------------------------------------------------------------ the gateway

InitGateway ==
    /\ now = 0 /\ InitDrv(MaxRequests) /\ InitConOff /\ InitFilterOff /\ InitAuthOff /\ InitKv /\ InitWorkerOff
    /\ q_pc = "idle" /\ q_text = None /\ q_filter = None /\ q_key = None
    /\ q_origin = <<>> /\ q_done = NotDone /\ resp = NoResponse /\ reqs_left = MaxRequests

NextGateway ==
    \/ HandleQuery \/ QueryRelayDone \/ QueryRelayFailed
    \/ DrvEvent \/ DrvIgnored \/ DrvEose \/ DrvStreamEnd \/ DrvTimeout \/ DrvReturn

SpecGateway == InitGateway /\ [][NextGateway]_vars

\* ------------------------------------------------------------------ concurrent misses

\* The requests in flight together.
Requesters == {"r1", "r2"}

\* Their filter parameters: two filters with different cache keys.
ConcurrentParams ==
    { Blob(Json(<< <<"kinds", <<7, 1>>>>, <<"limit", 1>> >>)), Blob(Json(<< <<"kinds", <<0>>>> >>)) }

\* handle_query of one request: pc is "new", "relay" (the Durable Object is
\* called), "draining" (the driver has its socket), "store" (the driver
\* returned) or "done"; sub is the sub_id of its driver; failure names the call
\* whose error ended it.
XRequest(pc, key, filter, socket, sub, events, stored, response, failure) ==
    [pc |-> pc, key |-> key, filter |-> filter, socket |-> socket, sub |-> sub,
     events |-> events, stored |-> stored, resp |-> response, failure |-> failure]

XAnswer(r, response, failure) ==
    [r EXCEPT !.pc = "done", !.resp = response, !.failure = failure]

InitConcurrent ==
    /\ now = 0 /\ InitDrv(0) /\ InitFilterOff /\ InitAuthOff /\ InitKv /\ InitGatewayOff /\ InitWorkerOff
    /\ x_req = [i \in Requesters |-> XRequest("new", None, None, None, None, <<>>, None, NoResponse, "none")]
    /\ x_puts = <<>>
    /\ x_conns = 0
    /\ y_wrk = <<>> /\ y_rows = <<>>

\* handle_query of request i: from_base64, cache_key, cache.get_query
XLookup(i) ==
    /\ x_req[i].pc = "new"
    /\ \E param \in ConcurrentParams, got \in KvResults :
        LET filter == from_base64(param).v
            key == cache_key(filter)
            hit == get_query(kv_query, key, now)
            r == [x_req[i] EXCEPT !.key = key, !.filter = Some(filter)] IN
        x_req' = [x_req EXCEPT ![i] =
            IF got = "err" THEN XAnswer(r, InternalError, "kv_get")
            ELSE IF hit # None
            THEN XAnswer(r, QueryResponse(hit[1][1].events, hit[1][1].eose, hit[1][1].eose,
                                          TRUE, Some(hit[1][2])), "none")
            ELSE [r EXCEPT !.pc = "relay"]]
    /\ UNCHANGED <<now, drvVars, fltVars, authVars, y_wrk, y_rows, x_puts, x_conns, kvVars, gwVars, wrkVars>>

\* query_relay_raw for request i: WebSocket::connect, the sub_id minted from
\* the clock, and the REQ
XConnect(i) ==
    /\ x_req[i].pc = "relay"
    /\ \E outcome \in {"ok", "failed"} :
        IF outcome = "ok"
        THEN /\ x_conns' = x_conns + 1
             /\ x_req' = [x_req EXCEPT ![i].pc = "draining", ![i].socket = Some(x_conns + 1),
                                     ![i].sub = Some(SubId(now))]
        ELSE /\ x_req' = [x_req EXCEPT ![i] = XAnswer(@, InternalError, "relay")]
             /\ UNCHANGED x_conns
    /\ UNCHANGED <<now, drvVars, fltVars, authVars, y_wrk, y_rows, x_puts, kvVars, gwVars, wrkVars>>

\* query_relay_raw for request i returns Ok(events): any list its loop can
\* collect from the relay.
XReturn(i) ==
    /\ x_req[i].pc = "draining"
    /\ \E events \in SeqsUpTo(EventDocs, MaxFrames) :
        x_req' = [x_req EXCEPT ![i].pc = "store", ![i].events = events]
    /\ UNCHANGED <<now, drvVars, fltVars, authVars, y_wrk, y_rows, x_puts, x_conns, kvVars, gwVars, wrkVars>>

\* handle_query of request i: cache.put_query and the response.  The clock
\* moves on between two puts.
XStore(i) ==
    /\ x_req[i].pc = "store"
    /\ \E put \in KvResults :
        IF put = "ok"
        THEN LET r == x_req[i]
                 kv == put_query(kv_query, r.key, r.events, TRUE, ttl_seconds(r.filter[1]), NextGrid(now)) IN
             /\ kv_query' = kv
             /\ x_puts' = Append(x_puts, i)
             /\ x_req' = [x_req EXCEPT ![i] =
                    XAnswer([r EXCEPT !.stored = Some(kv[r.key])],
                            QueryResponse(r.events, TRUE, TRUE, FALSE, None), "none")]
        ELSE /\ x_req' = [x_req EXCEPT ![i] = XAnswer(@, InternalError, "kv_put")]
             /\ UNCHANGED <<kv_query, x_puts>>
    /\ now' = NextGrid(now)
    /\ UNCHANGED <<drvVars, fltVars, authVars, y_wrk, y_rows, x_conns, kv_status, publish_queue, gwVars, wrkVars>>

NextConcurrent ==
    \E i \in Requesters : XLookup(i) \/ XConnect(i) \/ XReturn(i) \/ XStore(i)

SpecConcurrent == InitConcurrent /\ [][NextConcurrent]_vars

\* ------------------------------------------------------------------ concurrent workers

\* The invocations of handle_queue that run together, each on one message for
\* event "a".
Workers == {"w1", "w2"}

\* handle_queue of one invocation: pc is "read", "mark" (the row was read),
\* "publish" (attempt_N is stored), "done" or "aborted"; last is the row of
\* its latest set_publish_status.
YWorker(pc, attempts, last) == [pc |-> pc, attempts |-> attempts, last |-> last]

InitContention ==
    /\ now = 0 /\ InitDrv(0) /\ InitFilterOff /\ InitAuthOff /\ InitGatewayOff /\ InitWorkerOff
    /\ kv_query = <<>> /\ publish_queue = <<>>
    /\ kv_status \in {<<>>, [id \in {"a"} |-> QueuedRow]}
    /\ x_req = <<>> /\ x_puts = <<>> /\ x_conns = 0
    /\ y_wrk = [i \in Workers |-> YWorker("read", 0, None)]
    /\ y_rows = <<>>

\* cache.get_publish_status(&event_id).await? and the attempt count, for invocation i
YRead(i) ==
    /\ y_wrk[i].pc = "read"
    /\ \E got \in KvResults :
        y_wrk' = [y_wrk EXCEPT ![i] =
            IF got = "err" THEN [@ EXCEPT !.pc = "aborted"]
            ELSE [@ EXCEPT !.pc = "mark", !.attempts = NextAttempt(get_publish_status(kv_status, "a"))]]
    /\ UNCHANGED <<now, drvVars, fltVars, authVars, x_req, x_puts, x_conns, y_rows, kvVars, gwVars, wrkVars>>

\* One set_publish_status of invocation i that goes through.
YSet(i, row, pc) ==
    /\ kv_status' = set_publish_status(kv_status, "a", row)
    /\ y_rows' = Append(y_rows, row)
    /\ y_wrk' = [y_wrk EXCEPT ![i].pc = pc, ![i].last = Some(row)]

\* cache.set_publish_status(attempt_N).await?, for invocation i
YMark(i) ==
    /\ y_wrk[i].pc = "mark"
    /\ \E set \in KvResults :
        IF set = "err"
        THEN y_wrk' = [y_wrk EXCEPT ![i].pc = "aborted"] /\ UNCHANGED <<kv_status, y_rows>>
        ELSE YSet(i, AttemptRow(y_wrk[i].attempts), "publish")
    /\ UNCHANGED <<now, drvVars, fltVars, authVars, x_req, x_puts, x_conns, kv_query, publish_queue, gwVars, wrkVars>>

\* The rest of the processing of invocation i: the publish and verify calls of
\* the Durable Object, either of which can fail, and the row of the outcome.
YFinal(i) ==
    /\ y_wrk[i].pc = "publish"
    /\ \E outcome \in {"rejected", "not_found", "published", "call_failed"}, set \in KvResults :
        IF outcome = "call_failed" \/ set = "err"
        THEN y_wrk' = [y_wrk EXCEPT ![i].pc = "aborted"] /\ UNCHANGED <<kv_status, y_rows>>
        ELSE YSet(i, CASE outcome = "rejected" -> RejectedRow(y_wrk[i].attempts)
                       [] outcome = "not_found" -> NotFoundRow(y_wrk[i].attempts)
                       [] outcome = "published" -> PublishedRow(y_wrk[i].attempts, NextGrid(now)),
                  "done")
    /\ now' = NextGrid(now)
    /\ UNCHANGED <<drvVars, fltVars, authVars, x_req, x_puts, x_conns, kv_query, publish_queue, gwVars, wrkVars>>

NextContention == \E i \in Workers : YRead(i) \/ YMark(i) \/ YFinal(i)

SpecContention == InitContention /\ [][NextContention]_vars

\* ------------------------------------------------------------------ POST /publish

InitPublish ==
    /\ now = 0 /\ InitDrv(0) /\ InitConOff /\ InitFilterOff /\ InitAuthOff /\ InitKv /\ InitWorkerOff
    /\ q_pc = "idle" /\ q_text = None /\ q_filter = None /\ q_key = None
    /\ q_origin = <<>> /\ q_done = NotDone /\ resp = NoResponse /\ reqs_left = PublishRequests

NextPublish == HandlePublish

SpecPublish == InitPublish /\ [][NextPublish]_vars

\* ------------------------------------------------------------------ POST /publish again

\* The rows the worker can have left for event "a" when it is published again:
\* an attempt in progress, a retry, and a published row.
WorkerRows == {AttemptRow(1), RejectedRow(2), NotFoundRow(1), PublishedRow(3, 0)}

\* POST /publish requests for events the worker has already processed.
InitRepublish ==
    /\ now = 0 /\ InitDrv(0) /\ InitConOff /\ InitFilterOff /\ InitAuthOff /\ InitWorkerOff
    /\ kv_query = <<>> /\ publish_queue = <<>>
    /\ kv_status \in {[id \in {"a"} |-> row] : row \in WorkerRows}
    /\ q_pc = "idle" /\ q_text = None /\ q_filter = None /\ q_key = None
    /\ q_origin = <<>> /\ q_done = NotDone /\ resp = NoResponse /\ reqs_left = PublishRequests

SpecRepublish == InitRepublish /\ [][NextPublish]_vars

\* ------------------------------------------------------------------ the worker

\* One invocation of handle_queue on a batch of 1..MaxBatch messages; the status
\* rows start absent.
InitWorker ==
    /\ now = 0 /\ InitDrv(MaxBatch) /\ InitConOff /\ InitFilterOff /\ InitAuthOff /\ InitKv
    /\ q_pc = "idle" /\ q_text = None /\ q_filter = None /\ q_key = None
    /\ q_origin = <<>> /\ q_done = NotDone /\ resp = NoResponse /\ reqs_left = 0
    /\ batch_len \in 1..MaxBatch
    /\ w_pc = "read" /\ w_i = 1 /\ w_event = None /\ w_attempts = 0
    /\ w_ok = FALSE /\ w_err = "none" /\ msg_calls = [i \in 1..batch_len |-> <<>>]
    /\ p_start = 0 /\ p_out = <<>> /\ p_last = None /\ p_skipped = 0

NextWorker ==
    \/ WRead \/ WMark \/ WPublish \/ WPubOk \/ WPubOther \/ WPubEnd \/ WPubSilence
    \/ WRejected \/ WVerify \/ WVerifyFailed \/ WVerified \/ WNotFound
    \/ DrvEvent \/ DrvIgnored \/ DrvEose \/ DrvStreamEnd \/ DrvTimeout \/ DrvReturn

SpecWorker == InitWorker /\ [][NextWorker]_vars

\* ------------------------------------------------------------------ redelivery

\* The status rows an invocation of handle_queue can find: none, the row
\* handle_publish wrote for the event, or the retry row an earlier invocation
\* left for it.
PriorRows == {<<>>, [id \in {"a"} |-> QueuedRow], [id \in {"a"} |-> RejectedRow(1)]}

\* One invocation of handle_queue on a batch of 1..MaxBatch messages, some of
\* them delivered before.
InitRedelivery ==
    /\ now = 0 /\ InitDrv(MaxBatch) /\ InitConOff /\ InitFilterOff /\ InitAuthOff
    /\ kv_query = <<>> /\ kv_status \in PriorRows /\ publish_queue = <<>>
    /\ q_pc = "idle" /\ q_text = None /\ q_filter = None /\ q_key = None
    /\ q_origin = <<>> /\ q_done = NotDone /\ resp = NoResponse /\ reqs_left = 0
    /\ batch_len \in 1..MaxBatch
    /\ w_pc = "read" /\ w_i = 1 /\ w_event = None /\ w_attempts = 0
    /\ w_ok = FALSE /\ w_err = "none" /\ msg_calls = [i \in 1..batch_len |-> <<>>]
    /\ p_start = 0 /\ p_out = <<>> /\ p_last = None /\ p_skipped = 0

SpecRedelivery == InitRedelivery /\ [][NextWorker]_vars

\* ------------------------------------------------------------------ the fingerprint

\* handle_query, from the filter parameter to the cache key: Filter::from_base64,
\* then filter.cache_key(); an Err is the 400 answer, which has no key.
QueryKey(param) ==
    LET parsed == from_base64(param) IN
    IF parsed.k = "err" THEN parsed ELSE Ok(cache_key(parsed.v))

\* Two /query requests, each with any value of the filter parameter.
InitFilter ==
    /\ now = 0 /\ InitDrv(0) /\ InitConOff /\ InitAuthOff /\ InitKv /\ InitGatewayOff /\ InitWorkerOff
    /\ f_a \in FilterParams /\ f_b \in FilterParams /\ f_keys = None
    /\ InitCodecOff

FilterKeys ==
    /\ f_keys = None
    /\ f_keys' = <<QueryKey(f_a), QueryKey(f_b)>>
    /\ UNCHANGED <<now, drvVars, f_a, f_b, c_filter, c_encoded, c_decoded, c_ttl, authVars, conVars, kvVars, gwVars, wrkVars>>

NextFilter == FilterKeys

SpecFilter == InitFilter /\ [][NextFilter]_vars

\* ------------------------------------------------------------------ the filter codec

\* The kinds fields of the Filter values: absent, empty, each kind of the TTL
\* table and two outside it alone, and lists whose later kinds differ in TTL
\* from the first.
KindsFields ==
    { None, Some(<<>>), Some(<<0>>), Some(<<3>>), Some(<<1>>), Some(<<7>>), Some(<<2>>),
      Some(<<65535>>), Some(<<7, 0>>), Some(<<0, 7>>), Some(<<2, 0>>), Some(<<1, 3, 7>>) }

\* Filter values: any kinds field, ids and limit absent, empty or zero, or set,
\* and the five other fields all absent or all set.
FilterValues ==
    { [n \in KnownNames |->
         CASE n = "kinds" -> kinds
           [] n = "ids" -> ids
           [] n = "limit" -> lim
           [] n = "authors" -> IF rest THEN Some(<<"pk1", "pk2">>) ELSE None
           [] n = "since" -> IF rest THEN Some(0) ELSE None
           [] n = "until" -> IF rest THEN Some(1700000000) ELSE None
           [] n = "#e" -> IF rest THEN Some(<<"ev1">>) ELSE None
           [] n = "#p" -> IF rest THEN Some(<<>>) ELSE None] :
      kinds \in KindsFields, ids \in {None, Some(<<>>), Some(<<"id1">>)},
      lim \in {None, Some(0), Some(1)}, rest \in BOOLEAN }

InitCodec ==
    /\ now = 0 /\ InitDrv(0) /\ InitConOff /\ InitAuthOff /\ InitKv /\ InitGatewayOff /\ InitWorkerOff
    /\ f_a = None /\ f_b = None /\ f_keys = None
    /\ c_filter \in FilterValues /\ c_encoded = None /\ c_decoded = None /\ c_ttl = None

\* f.to_base64()
Encode ==
    /\ c_encoded = None
    /\ c_encoded' = Some(to_base64(c_filter))
    /\ UNCHANGED <<now, drvVars, f_a, f_b, f_keys, c_filter, c_decoded, c_ttl, authVars, conVars, kvVars, gwVars, wrkVars>>

\* Filter::from_base64(..) of the encoded text
Decode ==
    /\ c_encoded # None /\ c_decoded = None
    /\ c_decoded' = Some(from_base64(c_encoded[1]))
    /\ UNCHANGED <<now, drvVars, f_a, f_b, f_keys, c_filter, c_encoded, c_ttl, authVars, conVars, kvVars, gwVars, wrkVars>>

\* f.ttl_seconds()
Ttl ==
    /\ c_ttl = None
    /\ c_ttl' = Some(ttl_seconds(c_filter))
    /\ UNCHANGED <<now, drvVars, f_a, f_b, f_keys, c_filter, c_encoded, c_decoded, authVars, conVars, kvVars, gwVars, wrkVars>>

NextCodec == Encode \/ Decode \/ Ttl

SpecCodec == InitCodec /\ [][NextCodec]_vars

\* ------------------------------------------------------------------ the validator alone

\* The tag lists of the envelopes: the two rows asked for, in either order; one
\* of them missing, without a value, or with another value; the method in
\* lower case; and a second "method" or "u" row after or before a matching one.
TagLists ==
    { GoodTags,
      << <<"method", "POST">>, <<"u", RequestUrl>> >>,
      << <<"u", RequestUrl>>, <<"method", "post">> >>,
      << <<"u", RequestUrl>>, <<"method", "GET">> >>,
      << <<"u", RequestUrl>> >>,
      << <<"u", RequestUrl>>, <<"method">> >>,
      << <<"method", "POST">> >>,
      << <<"u">>, <<"method", "POST">> >>,
      << <<"u", "https://other/publish">>, <<"method", "POST">> >>,
      << <<"u", "https://other/publish">>, <<"method", "GET">> >>,
      << <<"u", RequestUrl>>, <<"method", "POST">>, <<"method", "GET">> >>,
      << <<"u", RequestUrl>>, <<"method", "GET">>, <<"method", "POST">> >>,
      << <<"u", RequestUrl>>, <<"u", "https://other/publish">>, <<"method", "POST">> >>,
      << <<"u", "https://other/publish">>, <<"u", RequestUrl>>, <<"method", "POST">> >> }

\* The clock of the validator specification, in ms, and the created_at values
\* of its envelopes, in s: 60 and 61 s to either side of each clock value that
\* allows it.
AuthClocks == {0, 30999, 100000}

CreatedAts == {0, 39, 40, 60, 61, 90, 91, 100, 160, 161}

AuthEnvelopes ==
    {AuthEvent(kind, created_at, tags, TRUE, sig) :
        kind \in {27235, 1}, created_at \in CreatedAts, tags \in TagLists,
        sig \in {"valid", "invalid"}}

\* The Authorization headers of the validator specification.
ValidatorHeaders ==
    {None, Some(Header("Bearer ", [k |-> "x"])), Some(Header("nostr ", [k |-> "x"]))}
    \cup {Some(Header("Nostr ", [k |-> x])) : x \in {"not_base64", "not_utf8", "not_json"}}
    \cup {Some(Header("Nostr ", Token(e))) : e \in AuthEnvelopes}

InitAuth ==
    /\ now \in AuthClocks /\ InitDrv(0) /\ InitConOff /\ InitFilterOff /\ InitKv /\ InitGatewayOff /\ InitWorkerOff
    /\ a_header \in ValidatorHeaders /\ a_method \in {"POST", "GET"} /\ a_result = "none"

\* One call of validate_nip98, as handle_publish makes it.
Validate ==
    /\ a_result = "none"
    /\ a_result' = validate_nip98(a_header, a_method, RequestUrl, now)
    /\ UNCHANGED <<now, drvVars, fltVars, a_header, a_method, conVars, kvVars, gwVars, wrkVars>>

NextAuth == Validate

SpecAuth == InitAuth /\ [][NextAuth]_vars

\* ------------------------------------------------------------------ claims

\* C1: the list a driver invocation returns holds at most 500 events, whatever
\* limit the filter asks for and however many EVENT frames the relay sends.
C1_ReturnedWithinCap == d_pc = "returned" => Len(d_events) <= 500

\* C1 witness: an invocation whose filter asked for one event returned with the
\* cap reached while the relay still had an EVENT frame to send.
C1_CapReached == d_pc = "returned" /\ d_exit = "limit" /\ Len(d_events) = 500 /\ r_left > 0

\* The OK frame that accepts the event.
OkAccepted == Some([t |-> "OK", accepted |-> Some(TRUE)])

\* The status rows a step stores or replaces.
Written == {id \in DOMAIN kv_status' : id \notin DOMAIN kv_status \/ kv_status'[id] # kv_status[id]}

\* C2: a step of the worker stores a row of status "published" only for the
\* event of the message it is processing, only after the relay answered that
\* message's EVENT with OK true, and only when the verify query for that event
\* id returned at least one event.
C2_PublishedOnlyVerified ==
    [][\A id \in Written : kv_status'[id].status = <<"published">> =>
          /\ w_pc = "verify"
          /\ id = EventId(w_event[1])
          /\ p_out = <<EventFrame(w_event[1])>>
          /\ p_last = OkAccepted
          /\ d_caller = "verify"
          /\ d_pc = "returned"
          /\ ws_out[1] = <<"REQ", d_sub[1], << <<"ids", <<id>>>>, <<"limit", 1>> >> >>
          /\ Len(d_events) >= 1]_vars

\* C2 witness: the second processing of event "a" in a batch stored "published"
\* after the first was rejected.
C2_PublishedOnSecondAttempt ==
    /\ "a" \in DOMAIN kv_status
    /\ kv_status["a"].status = <<"published">>
    /\ kv_status["a"].attempts = Some(2)
    /\ msg_calls = << <<"retry">>, <<"ack">> >>

\* C3: a POST /publish answered 202 "queued" has its event on the publish queue.
C3_QueuedIsEnqueued ==
    (resp.code = 202 /\ resp.status = "queued") =>
        \E i \in 1..Len(publish_queue) : publish_queue[i] = resp.event

\* C4: when an invocation of handle_queue has ended, every message of its batch
\* has had exactly one call of ack or retry, also when a KV or relay-pool call failed.
C4_EveryMessageSettled ==
    w_pc \in {"done", "aborted"} => \A i \in 1..batch_len : Len(msg_calls[i]) = 1

\* C5: publish_to_relay is not still waiting for OK later than 3000 ms after it
\* sent the EVENT frame.
C5_PublishWaitBounded == w_pc = "ok_wait" => now - p_start <= 3000

\* C6: after OK true the worker runs the verify query with the filter
\* {"ids":[event_id],"limit":1}; when the query has returned and the status write
\* goes through, a non-empty result stores "published" with verified_at and
\* attempts N and acks the message, an empty one stores "retry_N" with error
\* "event not found on relay" and retries it.
C6_VerifyThenRow ==
    [][/\ (w_pc = "answered" /\ p_last = OkAccepted) =>
            /\ w_pc' = "verify"
            /\ d_caller' = "verify"
            /\ d_filter' = << <<"ids", <<EventId(w_event[1])>>>>, <<"limit", 1>> >>
            /\ (ws_out' = <<>> \/ ws_out' = << <<"REQ", d_sub'[1], d_filter'>> >>)
       /\ (w_pc = "verify" /\ d_pc = "returned" /\ w_pc' \notin {"verify", "aborted"}) =>
            LET id == EventId(w_event[1])
                row == kv_status'[id] IN
            IF d_events # <<>>
            THEN /\ row.status = <<"published">>
                 /\ row.verified_at # None
                 /\ row.attempts = Some(w_attempts)
                 /\ row.error = None
                 /\ msg_calls' = [msg_calls EXCEPT ![w_i] = Append(@, "ack")]
            ELSE /\ row.status = <<"retry_", w_attempts>>
                 /\ row.attempts = Some(w_attempts)
                 /\ row.error = Some("event not found on relay")
                 /\ msg_calls' = [msg_calls EXCEPT ![w_i] = Append(@, "retry")]]_vars

\* C6 witness: a batch of two ended with the first message verified and acked
\* and the second, accepted but not found, retried.
C6_AckThenNotFound ==
    /\ w_pc = "done"
    /\ msg_calls = << <<"ack">>, <<"retry">> >>
    /\ \E id \in DOMAIN kv_status : kv_status[id].status = <<"published">>
    /\ \E id \in DOMAIN kv_status : kv_status[id].error = Some("event not found on relay")

\* C7: when the wait for OK ended without OK true (OK false, close, error or
\* timeout), the worker opens no relay session for a verify query, and when the
\* status write goes through it stores "retry_N" with error "relay rejected" and
\* retries the message.
C7_RejectedThenRetry ==
    [][(w_pc = "answered" /\ p_last # OkAccepted) =>
          /\ w_pc' # "verify"
          /\ UNCHANGED drvVars
          /\ w_pc' # "aborted" =>
                LET row == kv_status'[EventId(w_event[1])] IN
                /\ row.status = <<"retry_", w_attempts>>
                /\ row.attempts = Some(w_attempts)
                /\ row.error = Some("relay rejected")
                /\ msg_calls' = [msg_calls EXCEPT ![w_i] = Append(@, "retry")]]_vars

\* C7 witness: a message whose wait for OK timed out was retried with the
\* "relay rejected" row, and no relay session was opened for it.
C7_TimedOutRetried ==
    /\ p_last = Some([t |-> "TIMEOUT"])
    /\ msg_calls[1] = <<"retry">>
    /\ w_attempts = 1
    /\ kv_status[EventId(w_event[1])].error = Some("relay rejected")
    /\ calls_left = MaxBatch

\* C8: two /query requests whose filters decode get the same cache key exactly
\* when their decoded filter bytes are identical.
C8_SameKeyIffSameBytes ==
    (f_keys # None /\ f_keys[1].k = "ok" /\ f_keys[2].k = "ok") =>
        ((f_keys[1].v = f_keys[2].v) <=> (f_a.bytes = f_b.bytes))

\* C9: on a cache miss of a filter with a field outside the known set, the REQ
\* frame sent to the relay carries exactly the client's decoded filter bytes.
C9_ReqCarriesClientBytes ==
    (/\ q_pc = "relay"
     /\ ws_out # <<>>
     /\ \E i \in 1..Len(q_text[1]) : q_text[1][i][1] \notin KnownNames) =>
        ws_out[1] = <<"REQ", d_sub[1], q_text[1]>>

\* C10: a cache entry stores eose = true only when the driver invocation that
\* produced it left its loop on an EOSE frame.
C10_EoseOnlyOnEose ==
    \A key \in DOMAIN kv_query : kv_query[key].eose => q_origin[key] = "eose"

\* The CLOSE frames among the frames sent.
CloseFramesOf(out) == {i \in 1..Len(out) : out[i][1] = "CLOSE"}

\* C11: a driver invocation whose connect succeeded and that has ended, by
\* whatever path, made its one send of CLOSE: it ended through the CLOSE step,
\* and the frames it sent hold at most one CLOSE, the last frame, naming the
\* sub_id of its REQ.
C11_CloseOnEveryPath ==
    (d_sub # None /\ d_pc \in {"returned", "failed"}) =>
        /\ d_pc = "returned"
        /\ Cardinality(CloseFramesOf(ws_out)) <= 1
        /\ \A i \in CloseFramesOf(ws_out) : i = Len(ws_out) /\ ws_out[i] = <<"CLOSE", ws_out[1][2]>>

\* The checks of the validator, in the order they are to be made.
CheckOrder ==
    <<"MissingHeader", "InvalidFormat", "InvalidBase64", "InvalidJson", "InvalidKind",
      "Expired", "InvalidMethod", "InvalidUrl", "InvalidSignature">>

\* The header carries an envelope that decodes and parses.
HasEnvelope ==
    a_header # None /\ a_header[1].scheme = "Nostr " /\ a_header[1].token.k = "event"

Envelope == a_header[1].token.event

\* The rows of the envelope's tags whose first element is name.
RowsNamed(name) == {i \in 1..Len(Envelope.tags) : Envelope.tags[i][1] = name}

\* The first row of that name has a value, and it is one of wanted.
FirstRowIn(name, wanted) ==
    /\ RowsNamed(name) # {}
    /\ LET first == CHOOSE i \in RowsNamed(name) : \A j \in RowsNamed(name) : i <= j IN
       Len(Envelope.tags[first]) >= 2 /\ Envelope.tags[first][2] \in wanted

\* The spellings of a method name that differ in case only.
Spellings(m) == {x \in {"POST", "post", "GET", "get"} : to_uppercase(x) = to_uppercase(m)}

\* The request of a_header, a_method and the clock fails the check, taken by
\* itself; a check on the envelope is failed only by a header that carries one.
CheckFails(check) ==
    CASE check = "MissingHeader" -> a_header = None
      [] check = "InvalidFormat" -> a_header # None /\ a_header[1].scheme # "Nostr "
      [] check = "InvalidBase64" ->
            /\ a_header # None /\ a_header[1].scheme = "Nostr "
            /\ a_header[1].token.k \in {"not_base64", "not_utf8"}
      [] check = "InvalidJson" ->
            a_header # None /\ a_header[1].scheme = "Nostr " /\ a_header[1].token.k = "not_json"
      [] check = "InvalidKind" -> HasEnvelope /\ Envelope.kind # 27235
      [] check = "Expired" ->
            /\ HasEnvelope
            /\ \/ Envelope.created_at - (now \div 1000) > 60
               \/ (now \div 1000) - Envelope.created_at > 60
      [] check = "InvalidMethod" -> HasEnvelope /\ ~FirstRowIn("method", Spellings(a_method))
      [] check = "InvalidUrl" -> HasEnvelope /\ ~FirstRowIn("u", {RequestUrl})
      [] check = "InvalidSignature" -> HasEnvelope /\ Envelope.sig # "valid"

FailingChecks == {i \in 1..Len(CheckOrder) : CheckFails(CheckOrder[i])}

\* C12: validate_nip98 returns the error of the first check, in the fixed
\* order, that the request fails, whatever later checks it fails too, and Ok
\* only when it fails none.
C12_FirstFailingCheck ==
    a_result # "none" =>
        IF FailingChecks = {} THEN a_result = "Ok"
        ELSE a_result = CheckOrder[CHOOSE i \in FailingChecks : \A j \in FailingChecks : i <= j]

\* C12 witness: an envelope that fails the method, the URL and the signature
\* check was rejected with InvalidMethod.
C12_MethodBeforeUrl ==
    /\ a_result = "InvalidMethod"
    /\ CheckFails("InvalidUrl")
    /\ CheckFails("InvalidSignature")

\* C13: a header is accepted only if its envelope has exactly one "method" row
\* and exactly one "u" row.
C13_ExactlyOneRow ==
    a_result = "Ok" =>
        /\ Cardinality(RowsNamed("method")) = 1
        /\ Cardinality(RowsNamed("u")) = 1

\* C14: an envelope of the right kind is rejected as Expired exactly when
\* created_at is more than 60 seconds from the clock, on either side; the two
\* ends of the window pass, and below 60 seconds of clock the lower end is 0.
C14_ExpiredIffOutsideWindow ==
    (a_result # "none" /\ HasEnvelope /\ Envelope.kind = 27235) =>
        (a_result = "Expired" <=>
            \/ Envelope.created_at > (now \div 1000) + 60
            \/ Envelope.created_at + 60 < (now \div 1000))

\* C14 witness: an envelope created exactly 60 seconds before the clock was
\* accepted.
C14_SixtyBehindAccepted ==
    /\ a_result = "Ok"
    /\ (now \div 1000) = 100
    /\ Envelope.created_at = 40

\* The driver is between the REQ it sent and its return.
Draining == d_pc \in {"await", "closing", "returned"}

\* C15: while no EVENT frame has arrived the driver waits less than 1000 ms
\* from its start, and has left the loop, with an empty list, when 1000 ms are
\* reached, whichever frames that are no EVENT arrived meanwhile.
C15_EmptyWaitBounded ==
    (Draining /\ d_events = <<>>) =>
        /\ now - d_start <= 1000
        /\ d_pc = "await" => now - d_start < 1000

\* C15 witness: an invocation returned an empty list 1000 ms after its start,
\* ended by its own wait and not by the relay.
C15_EmptyAtOneSecond ==
    /\ d_pc = "returned"
    /\ d_events = <<>>
    /\ d_exit = "remaining"
    /\ now - d_start = 1000

\* C16: once an event is collected, the driver is never found more than 300 ms
\* after the arrival of its most recent EVENT frame.
C16_IdleBoundAfterLastEvent ==
    (Draining /\ d_events # <<>>) => now - d_last <= 300

\* C17: the driver waits less than 5000 ms from connect and has left the loop
\* when 5000 ms are reached, for every relay.
C17_TotalWaitBounded ==
    Draining =>
        /\ now - d_start <= 5000
        /\ d_pc = "await" => now - d_start < 5000

\* C17 witness: against a relay whose EVENT frames never let the idle wait run
\* out, an invocation returned 5000 ms after connect, with an EVENT frame
\* arrived at that moment.
C17_CutAtFiveSeconds ==
    /\ d_pc = "returned"
    /\ d_exit = "remaining"
    /\ now - d_start = 5000
    /\ d_last = now
    /\ Len(d_events) >= 17

\* A step in which handle_query takes a request.
QueryAsked == q_pc = "idle" /\ reqs_left' = reqs_left - 1

\* The cache key of the request the step takes, if its filter decoded.
AskedKey == IF q_pc' = "relay" THEN q_key' ELSE q_done'.key

\* C18: when the last /query answered was a miss that wrote its result, and the
\* next request has the same cache key and its KV get succeeds, the request is
\* answered at once, from the KV: 200 with cached = true, an age of 0 or more,
\* and the events of the first response, in their order.
C18_SecondAnswerFromCache ==
    [][(/\ QueryAsked
        /\ q_done.how = "miss"
        /\ AskedKey = q_done.key
        /\ q_done'.how # "kv_get_failed") =>
            /\ q_pc' = "idle"
            /\ resp'.code = 200
            /\ resp'.cached = TRUE
            /\ resp'.cache_age_seconds # None
            /\ resp'.cache_age_seconds[1] >= 0
            /\ resp'.events = resp.events]_vars

\* C18 witness: a request was answered from the entry a miss had written, with
\* the two events of that entry.
C18_HitAfterMiss ==
    /\ q_done.how = "hit"
    /\ q_done.key \in DOMAIN q_origin
    /\ resp.cached = TRUE
    /\ resp.cache_age_seconds = Some(0)
    /\ Len(resp.events) = 2
    /\ resp.events = kv_query[q_done.key].events

\* C19: a /query whose KV get failed is answered with the result of the relay,
\* not with the error of the KV.
C19_KvGetFailureIsMiss ==
    q_done.how = "kv_get_failed" => (resp.code = 200 /\ resp.cached = FALSE)

\* C20: a connect that fails makes the driver fail without a frame sent; the
\* handler then answers 500 and leaves the KV as it was, with no entry under
\* the cache key; and the next request with that cache key, its KV get
\* succeeding, starts the driver again.
C20_FailedMissNotCached ==
    [][/\ (d_pc = "idle" /\ d_pc' # "idle" /\ d_sub' = None) =>
            (d_pc' = "failed" /\ ws_out' = <<>>)
       /\ (q_pc = "relay" /\ d_pc = "failed" /\ q_pc' = "idle") =>
            /\ resp'.code = 500
            /\ kv_query' = kv_query
            /\ q_key \notin DOMAIN kv_query'
       /\ (/\ QueryAsked
           /\ q_done.how = "connect_failed"
           /\ AskedKey = q_done.key
           /\ q_done'.how # "kv_get_failed") =>
            /\ q_pc' = "relay"
            /\ d_caller' = "query"
            /\ d_pc' # "idle"]_vars

\* C20 witness: after a request that ended in a failed connect, the next
\* request with the same cache key has its REQ frame on the socket, and the KV
\* has no entry under the key.
C20_RetriedAfterConnectFailure ==
    /\ q_done.how = "connect_failed"
    /\ q_pc = "relay"
    /\ q_key = q_done.key
    /\ ws_out # <<>>
    /\ q_key \notin DOMAIN kv_query

\* The first kind a filter declares, if any.
FirstKind(filter) ==
    IF filter["kinds"] = None THEN None
    ELSE IF Len(filter["kinds"][1]) = 0 THEN None
    ELSE Some(Head(filter["kinds"][1]))

\* C27: ttl_seconds has a value for every filter, given by the first declared
\* kind alone: 900 for 0, 600 for 3, 300 for 1, 120 for 7, and 300 for any
\* other first kind, an empty list or no list.
C27_TtlByFirstKind ==
    c_ttl # None =>
        c_ttl[1] = (IF FirstKind(c_filter) = Some(0) THEN 900
                    ELSE IF FirstKind(c_filter) = Some(3) THEN 600
                    ELSE IF FirstKind(c_filter) = Some(7) THEN 120
                    ELSE 300)

\* C27 witness: a filter whose kinds are 7 then 0 got the TTL of kind 7.
C27_LaterKindIgnored == c_filter["kinds"] = Some(<<7, 0>>) /\ c_ttl = Some(120)

\* C30: decoding the base64url text of a Filter value gives back that value.
C30_DecodeOfEncode == c_decoded # None => c_decoded[1] = Ok(c_filter)

\* C30 witness: a filter with every field set, one of them to an empty list,
\* came back from its encoding.
C30_AllFieldsBack ==
    /\ c_decoded = Some(Ok(c_filter))
    /\ \A n \in KnownNames : c_filter[n] # None
    /\ c_filter["#p"] = Some(<<>>)

\* The attempts of the row stored under id, 0 when there is none.
StoredAttempts(kv, id) ==
    IF id \notin DOMAIN kv THEN 0
    ELSE IF kv[id].attempts = None THEN 0
    ELSE kv[id].attempts[1]

\* C23: the worker counts the attempt as one more than the attempts of the row
\* it read, 0 for no row; every row it then writes for the message carries
\* that count, the first as attempt_N; and no step lowers the attempts stored
\* for an event.
C23_AttemptsCountUp ==
    [][/\ (w_pc = "read" /\ w_pc' = "mark") =>
            w_attempts' = StoredAttempts(kv_status, EventId(w_event'[1])) + 1
       /\ \A id \in Written :
            /\ id = EventId(w_event[1])
            /\ kv_status'[id].attempts = Some(w_attempts)
            /\ w_pc = "mark" => kv_status'[id].status = <<"attempt_", w_attempts>>
       /\ \A id \in DOMAIN kv_status :
            StoredAttempts(kv_status', id) >= StoredAttempts(kv_status, id)]_vars

\* C23 witness: the second message of a batch, for an event whose row was at
\* one attempt before the batch, was published at its third attempt.
C23_ThirdAttempt ==
    /\ w_i = 2
    /\ w_attempts = 3
    /\ "a" \in DOMAIN kv_status
    /\ kv_status["a"].status = <<"published">>
    /\ kv_status["a"].attempts = Some(3)

\* The status of the row is one of the five, and the number in attempt_N and
\* retry_N is the row's attempts, at least 1.
StatusKnown(row) ==
    \/ row.status \in {<<"queued">>, <<"published">>, <<"failed">>}
    \/ /\ Len(row.status) = 2
       /\ row.status[1] \in {"attempt_", "retry_"}
       /\ row.attempts = Some(row.status[2])
       /\ row.status[2] >= 1

\* C29: every publish-status row in the KV has a status of queued, attempt_N,
\* retry_N, published or failed, with N the attempts of the row and N >= 1.
C29_StatusVocabulary == \A id \in DOMAIN kv_status : StatusKnown(kv_status[id])

\* C29 witness: the KV holds a retry row of a second attempt.
C29_RetryRowStored ==
    /\ "a" \in DOMAIN kv_status
    /\ kv_status["a"].status = <<"retry_", 2>>
    /\ kv_status["a"].attempts = Some(2)

\* The checks of the validator that do not read the clock.
ClocklessChecks ==
    {"MissingHeader", "InvalidFormat", "InvalidBase64", "InvalidJson", "InvalidKind",
     "InvalidMethod", "InvalidUrl", "InvalidSignature"}

\* C24: a POST /publish whose header is missing, is not of the "Nostr "
\* scheme, or carries a token or envelope that fails a check, is answered 401
\* with error auth_failed, and the step stores no status row and sends nothing
\* to the queue.
C24_BadAuthIs401 ==
    [][(/\ reqs_left' = reqs_left - 1
        /\ \/ \E check \in ClocklessChecks : CheckFails(check)'
           \/ /\ HasEnvelope'
              /\ \/ Envelope'.created_at - (now \div 1000) > 60
                 \/ (now \div 1000) - Envelope'.created_at > 60) =>
            /\ resp'.code = 401
            /\ resp'.error = "auth_failed"
            /\ kv_status' = kv_status
            /\ publish_queue' = publish_queue]_vars

\* C24 witness: a POST whose envelope has the method tag GET was answered 401
\* after an earlier request had been accepted, and the KV holds the rows of
\* the accepted requests only.
C24_GetTagRefused ==
    /\ resp.code = 401
    /\ resp.error = "auth_failed"
    /\ a_result = "InvalidMethod"
    /\ DOMAIN kv_status = {"a"}
    /\ publish_queue = <<>>

\* C21: when the socket closes, errors or ends while the driver waits, the
\* driver leaves the loop and returns the events it holds, unchanged, as a
\* result and not as an error; the handler then, its KV put succeeding, stores
\* exactly those events under the cache key with the TTL of the filter and
\* answers 200 with them, also when there are none.
C21_SocketEndGivesPrefix ==
    [][/\ (d_pc = "await" /\ d_exit' = "closed") =>
            (d_pc' = "closing" /\ d_events' = d_events)
       /\ (d_pc = "closing" /\ d_pc' # "closing") =>
            (d_pc' = "returned" /\ d_events' = d_events)
       /\ (q_pc = "relay" /\ d_pc = "returned" /\ d_exit = "closed" /\ q_done'.how = "miss") =>
            /\ resp'.code = 200
            /\ resp'.events = d_events
            /\ q_key \in DOMAIN kv_query'
            /\ kv_query'[q_key].events = d_events
            /\ kv_query'[q_key].expiration_ttl = ttl_seconds(q_filter[1])]_vars

\* C21 witness: a miss whose relay closed the socket before any EVENT frame was
\* answered 200 with no events, and the empty list is cached for 120 s, the
\* TTL of a filter whose first kind is 7.
C21_EmptyPrefixCached ==
    /\ q_done.how = "miss"
    /\ q_origin[q_done.key] = "closed"
    /\ resp.code = 200
    /\ resp.events = <<>>
    /\ kv_query[q_done.key].events = <<>>
    /\ kv_query[q_done.key].expiration_ttl = 120

\* C25: a 200 answer of /query has cached = true exactly when the request
\* was answered from the KV entry of its cache key, whose events it then
\* carries; it has cache_age_seconds exactly when cached is true; and its
\* complete equals its eose.
C25_ResponseFlags ==
    resp.code = 200 =>
        /\ resp.cached <=> q_done.how = "hit"
        /\ resp.cached => resp.events = kv_query[q_done.key].events
        /\ ~resp.cached => q_done.how = "miss"
        /\ resp.cache_age_seconds # None <=> resp.cached
        /\ resp.complete = resp.eose

\* C25 witness: a request answered from the KV entry of an empty result
\* carries cached = true and an age.
C25_CachedWithAge ==
    /\ q_done.how = "hit"
    /\ resp.code = 200
    /\ resp.cached
    /\ resp.cache_age_seconds # None
    /\ resp.events = <<>>

\* The limit of the filter of the last /query taken, if the filter decoded and
\* has one.
AskedLimit ==
    IF f_a = None THEN None
    ELSE IF from_base64(f_a[1]).k = "err" THEN None
    ELSE from_base64(f_a[1]).v["limit"]

BadParam(param) ==
    \/ param = None
    \/ param[1].k = "not_base64"
    \/ param[1].k = "blob" /\ param[1].bytes.k \in {"not_utf8", "not_json"}

\* C28: a /query without filter parameter, or with one that is no base64url,
\* no UTF-8 or no JSON filter, is answered 400 with error invalid_filter,
\* whatever the KV would answer, and the step leaves the KV as it was and
\* starts no driver invocation.
C28_BadFilterIs400 ==
    [][(QueryAsked /\ BadParam(f_a')) =>
            /\ resp'.code = 400
            /\ resp'.error = "invalid_filter"
            /\ kv_query' = kv_query
            /\ q_pc' = "idle"
            /\ d_pc' = "idle"
            /\ calls_left' = calls_left
            /\ ws_out' = ws_out]_vars

\* C28 witness: after a miss had filled the KV, a /query whose filter bytes
\* are no UTF-8 was answered 400.
C28_NotUtf8Refused ==
    /\ f_a = Some(Blob(NotUtf8))
    /\ q_done.how = "bad_request"
    /\ resp.code = 400
    /\ resp.detail = "InvalidUtf8"
    /\ DOMAIN kv_query # {}

\* The request missed the cache and went to the Durable Object.
XMissed(i) == x_req[i].pc \in {"relay", "draining", "store"} \/ x_req[i].socket # None \/ x_req[i].failure = "relay"

\* The request whose put_query under the key ran last.
LastPut(key) ==
    LET puts == {n \in 1..Len(x_puts) : x_req[x_puts[n]].key = key} IN
    x_puts[CHOOSE n \in puts : \A m \in puts : m <= n]

FieldsOfStatus(row) ==
    CASE row.status = <<"published">> -> row.verified_at # None /\ row.error = None
      [] row.status[1] = "retry_" ->
            /\ row.error \in {Some("relay rejected"), Some("event not found on relay")}
            /\ row.verified_at = None
      [] row.status = <<"queued">> \/ row.status[1] = "attempt_" ->
            row.verified_at = None /\ row.error = None
      [] OTHER -> TRUE

\* C38: every stored status row of status "published" has verified_at and no
\* error; every row of status retry_N has the error "relay rejected" or "event
\* not found on relay" and no verified_at; rows of status "queued" or attempt_N
\* have neither field.
C38_OptionalFieldsByStatus == \A id \in DOMAIN kv_status : FieldsOfStatus(kv_status[id])

\* C38 witness: one invocation left a published row for one event and a
\* "relay rejected" retry row for the other.
C38_PublishedAndRejected ==
    /\ w_pc = "done"
    /\ \E id \in DOMAIN kv_status :
        kv_status[id].status = <<"published">> /\ kv_status[id].verified_at # None
    /\ \E id \in DOMAIN kv_status :
        kv_status[id].status[1] = "retry_" /\ kv_status[id].error = Some("relay rejected")

\* C39: a message for an event whose row is "published" with attempts N is
\* processed like any other: the read takes attempt N + 1 and goes on to the
\* attempt row, which replaces the published row; and the row the processing
\* ends on is "published" when this processing's EVENT got OK true and its
\* verify query found the event, "retry_(N+1)" otherwise.
C39_PublishedIsReprocessed ==
    [][/\ (/\ w_pc = "read" /\ w_pc' # "aborted"
           /\ EventId(w_event'[1]) \in DOMAIN kv_status
           /\ kv_status[EventId(w_event'[1])].status = <<"published">>) =>
            /\ w_pc' = "mark"
            /\ w_attempts' = kv_status[EventId(w_event'[1])].attempts[1] + 1
            /\ UNCHANGED <<kv_status, msg_calls, w_i>>
       /\ (w_pc = "mark" /\ w_pc' # "aborted") =>
            kv_status'[EventId(w_event[1])] =
                [status |-> <<"attempt_", w_attempts>>, attempts |-> Some(w_attempts),
                 verified_at |-> None, error |-> None]
       /\ (w_pc \in {"answered", "verify"} /\ w_pc' \notin {"answered", "verify", "aborted"}) =>
            LET row == kv_status'[EventId(w_event[1])] IN
            /\ row.attempts = Some(w_attempts)
            /\ row.status =
                  IF p_last = OkAccepted /\ w_pc = "verify" /\ d_events # <<>>
                  THEN <<"published">> ELSE <<"retry_", w_attempts>>]_vars

\* C39 witness: both messages of a batch were for event "a"; the first left it
\* "published" and was acked, the second left it "retry_2" and was retried.
C39_PublishedThenRetry ==
    /\ w_pc = "done"
    /\ DOMAIN kv_status = {"a"}
    /\ msg_calls = << <<"ack">>, <<"retry">> >>
    /\ kv_status["a"].status = <<"retry_", 2>>

\* C40: an authenticated POST /publish that is answered 202 replaces the row
\* of its event id, whatever it was, by {status "queued", attempts 0} and
\* leaves the other rows alone; the attempts stored for an event can so go
\* down.
C40_PublishOverwritesRow ==
    [][resp'.code = 202 =>
          /\ a_result' = "Ok"
          /\ kv_status' = [id \in DOMAIN kv_status \cup {resp'.event_id} |->
                IF id = resp'.event_id
                THEN [status |-> <<"queued">>, attempts |-> Some(0),
                      verified_at |-> None, error |-> None]
                ELSE kv_status[id]]]_vars

\* C40 witness: event "a", whose row the worker had left at one attempt or
\* more, is back at "queued" with attempts 0 after a POST /publish for it.
C40_AttemptsBackToZero ==
    /\ resp.code = 202
    /\ resp.event_id = "a"
    /\ kv_status["a"].status = <<"queued">>
    /\ kv_status["a"].attempts = Some(0)

\* C35: two driver invocations never have the same sub_id, also when they
\* start within the same millisecond.
C35_SubIdsDiffer ==
    \A i, j \in Requesters :
        (i # j /\ x_req[i].sub # None /\ x_req[j].sub # None) => x_req[i].sub # x_req[j].sub

\* The invocations that have ended their processing of the message.
Processed == {i \in Workers : y_wrk[i].pc = "done"}

\* C37: with two invocations of handle_queue at work on the same event id, the
\* status row of the event is at every moment exactly the row of the latest
\* set_publish_status that went through, whole: once both have ended, it is
\* the last row one of the two wrote.  (That its attempts can be lower than
\* the number of processings is the witness.)
C37_LastWriterWins ==
    /\ y_rows # <<>> =>
        /\ "a" \in DOMAIN kv_status
        /\ kv_status["a"] = y_rows[Len(y_rows)]
    /\ (Processed = Workers) =>
        \E i \in Workers : kv_status["a"] = y_wrk[i].last[1]

\* C37 witness: both invocations processed the message to its end, both read
\* the row before either wrote, and the final row stands at one attempt after
\* two processings.
C37_LostAttempt ==
    /\ Processed = Workers
    /\ Cardinality(Workers) = 2
    /\ y_wrk["w1"].attempts = 1 /\ y_wrk["w2"].attempts = 1
    /\ Len(y_rows) = 4
    /\ kv_status["a"].attempts = Some(1)

\* C32: the wait of publish_to_relay ends on the first OK frame it receives,
\* with the third element of that frame as its result when it is the boolean
\* true and not accepted when it is false, missing or no boolean; a frame that
\* is no OK, received within the 3000 ms, is passed over and the wait goes on;
\* and Close, Err or the end of the stream ends the wait as not accepted.
C32_FirstOkDecides ==
    [][w_pc = "ok_wait" =>
          /\ (w_pc' = "answered" /\ p_last'[1].t = "OK") =>
                w_ok' = (p_last'[1].accepted = Some(TRUE))
          /\ (p_skipped' = p_skipped + 1 /\ now - p_start <= pub_timeout_ms) =>
                (w_pc' = "ok_wait" /\ UNCHANGED <<w_ok, p_last>>)
          /\ (w_pc' = "answered" /\ p_last'[1].t \in {"CLOSE", "ERR", "END"}) =>
                w_ok' = FALSE]_vars

\* C32 witness: publish_to_relay passed over two frames that were no OK and
\* then returned accepted on an OK frame carrying true.
C32_OkAfterSkippedFrames ==
    /\ w_pc = "answered"
    /\ p_skipped = 2
    /\ p_last = Some([t |-> "OK", accepted |-> Some(TRUE)])
    /\ w_ok

\* The event documents of the EVENT frames of three elements among frames, in
\* the order of the frames.
RECURSIVE DocsOf(_)
DocsOf(frames) ==
    IF frames = <<>> THEN <<>>
    ELSE (IF Head(frames).t = "EVENT" THEN <<Head(frames).doc>> ELSE <<>>) \o DocsOf(Tail(frames))

\* C31: the list a driver invocation holds, and returns, is exactly the event
\* documents of the EVENT frames its socket gave it, in the order they came;
\* two frames with the same event are both in it.
C31_EventsInArrivalOrder == d_events = DocsOf(ws_in[1])

\* C31 witness: the driver returned e2, e1, e1 after the relay sent e2, then
\* e1, then e1 again.
C31_OrderAndDuplicateKept ==
    /\ d_pc = "returned"
    /\ d_events = <<"e2", "e1", "e1">>
    /\ DocsOf(ws_in[1]) = <<"e2", "e1", "e1">>

\* The frames of C33: a NOTICE, an OK, a frame of unknown type, and text that
\* does not parse.
PassedOver == [t : {"NOTICE", "OK", "OTHER", "UNPARSABLE"}]

\* C33: when the socket gives the draining driver a NOTICE, an OK, a frame of
\* unknown type or unparsable text, the collected list and the time of the
\* last EVENT stay as they were, and the driver goes on waiting unless one of
\* the checks of the loop head is due at the time it next gets there.
C33_IgnoredFrameChangesNothing ==
    [][(/\ d_pc = "await"
        /\ Len(ws_in'[1]) = Len(ws_in[1]) + 1
        /\ ws_in'[1][Len(ws_in'[1])] \in PassedOver) =>
          /\ d_events' = d_events
          /\ d_last' = d_last
          /\ d_pc' \in {"await", "closing"}
          /\ d_pc' = "closing" =>
                \/ now' - d_start >= 5000
                \/ d_events # <<>> /\ now' - d_last > 300
                \/ d_events = <<>> /\ now' - d_start >= 1000
                \/ Len(d_events) >= 500]_vars

\* C33 witness: a NOTICE came 300 ms after the one EVENT; the driver is still
\* waiting, its list and its idle clock as the EVENT left them.
C33_NoticeAfterEvent ==
    /\ d_pc = "await"
    /\ Len(ws_in[1]) = 2
    /\ ws_in[1][1].t = "EVENT"
    /\ ws_in[1][2].t = "NOTICE"
    /\ d_events = <<ws_in[1][1].doc>>
    /\ now - d_last = 300

\* C34: when the check of the loop head that ends the loop finds both the cap
\* of 500 events reached and more than 5000 ms gone since the start, the
\* driver leaves by the limit break, not by the max-timeout break.
C34_SaturatedBeforeTimeout ==
    (d_pc = "closing" /\ Len(d_events) >= 500 /\ now - d_start > 5000) => d_exit = "limit"

\* C36: a driver invocation whose connect and REQ send succeeded, so that it
\* is in its loop, goes on to return its list, and never ends in an error,
\* whatever the relay does: silence, EVENT or ignored frames without end, no
\* EOSE ever.
C36_DriverTerminates ==
    /\ (d_pc = "await") ~> (d_pc = "returned")
    /\ [][(d_pc \in {"await", "closing", "returned"}) => (d_pc' # "failed")]_vars

\* C36 witness: against a relay that sent nothing the driver returned the
\* empty list, one second after its start.
C36_SilentRelayReturned ==
    /\ d_pc = "returned"
    /\ d_events = <<>>
    /\ d_exit \in {"empty", "remaining"}
    /\ now - d_start = 1000
    /\ r_left = limit + 1

====
